---- MODULE Spec2Model ----
(***************************************************************************)
(* A model of the challenge engine of MyWebServiceDemo: the observer       *)
(* dispatch of models/challenge.py, the four concrete observers            *)
(* (analytics, achievements, Inven!RA sink, level progression) and the     *)
(* timed decorator of decorators/timed_decorator.py.                       *)
(*                                                                         *)
(* Conventions.                                                            *)
(*  - Python's None is the empty sequence <<>>, a present value v is <<v>>.*)
(*  - An exception raised by a handler is a "raised" field of the value    *)
(*    the handler operator returns; the state written before the raise is  *)
(*    kept, as in the code.                                                *)
(*  - Percentages (correct / total * 100) are kept in hundredths of a      *)
(*    percent, rounded down; every comparison the code makes is against an *)
(*    integer percentage, for which this is exact.                         *)
(*  - Wall-clock timestamps stored in the observers' records (first /      *)
(*    last attempt, created_at, unlock and level-up timestamps) are left   *)
(*    out: no handler reads them.                                          *)
(*  - Strings are ASCII ("Leao" stands for the animal name of id 1).       *)
(***************************************************************************)
EXTENDS Integers, Sequences, FiniteSets, TLC

VARIABLES
    challenge,          \* the Challenge instance: type, animal_id, difficulty, correct_answer
    observers,          \* Challenge._observers
    user_data,          \* CognitiveAnalytics.user_data
    user_achievements,  \* AchievementObserver.user_achievements
    user_progression,   \* LevelProgressionObserver.user_progression
    event_queue,        \* InveniraObserver.event_queue
    batches,            \* the batches _flush_queue has sent, oldest first
    calls,              \* the handler calls made by the last notify_* call, in order
    raised,             \* whether the last operation ended by raising
    now,                \* datetime.now(), in ticks of 2 ms
    time_limit_seconds, \* TimedChallengeDecorator.time_limit_seconds
    start_time,         \* TimedChallengeDecorator.start_time
    end_time,           \* TimedChallengeDecorator._end_time
    answer_submitted,   \* TimedChallengeDecorator._answer_submitted
    ret,                \* what the last call on the timed decorator returned
    op,                 \* the last operation and its arguments
    nnotify,            \* how many notify_* calls were made
    nawards,            \* how many award_bonus_xp calls were made
    nticks,             \* how many times the clock was advanced
    registry,           \* ChallengeFactory._challenge_types, in insertion order
    fret,               \* what the last call on the factory returned or raised
    options,            \* what the last get_options call returned
    objects,            \* the challenge and decorator objects created, by identity
    requests            \* the submit requests being handled, each with its position

vars == <<challenge, observers, user_data, user_achievements, user_progression,
          event_queue, batches, calls, raised, now, time_limit_seconds,
          start_time, end_time, answer_submitted, ret, op, nnotify, nawards,
          nticks,
          registry, fret, options, objects, requests>>

observerVars == <<challenge, observers, user_data, user_achievements,
                  user_progression, event_queue, batches, calls, raised, nnotify,
                  nawards>>

timedVars == <<now, time_limit_seconds, start_time, end_time, answer_submitted,
               ret, nticks>>

factoryVars == <<registry, fret>>

optionVars == <<options>>

decoratorVars == <<objects>>

requestVars == <<requests>>

otherVars == <<optionVars, decoratorVars, requestVars>>

None == <<>>

Some(v) == <<v>>

(***************************************************************************)
(* Static data: data/animals_data.py and the challenge variants.           *)
(***************************************************************************)
BuiltinTypes == {"audio", "visual", "habitat", "classification"}

\* a type added at run time with ChallengeFactory.register_challenge_type
CustomType == "night"

\* ANIMALS_DB: the ids, in the order of the list
AnimalIds == <<1, 2, 3, 4, 5>>

AnimalName(animal_id) ==
    CASE animal_id = 1 -> "Leao"
      [] animal_id = 2 -> "Elefante"
      [] animal_id = 3 -> "Coruja"
      [] animal_id = 4 -> "Macaco"
      [] animal_id = 5 -> "Golfinho"

\* ANIMALS_DB: the 'habitat' key of an animal
AnimalHabitatKey(animal_id) ==
    CASE animal_id \in {1, 2} -> "savana"
      [] animal_id \in {3, 4} -> "floresta"
      [] animal_id = 5 -> "oceano"

\* HABITATS, in the order of the dict
HABITATS ==
    << [key |-> "floresta", name |-> "Floresta Tropical"],
       [key |-> "savana", name |-> "Savana Africana"],
       [key |-> "oceano", name |-> "Oceano"],
       [key |-> "deserto", name |-> "Deserto"],
       [key |-> "montanha", name |-> "Montanhas"],
       [key |-> "polo", name |-> "Regioes Polares"] >>

\* HABITATS[animal_data['habitat']]
AnimalHabitat(animal_id) ==
    HABITATS[CHOOSE i \in 1..Len(HABITATS) :
                HABITATS[i].key = AnimalHabitatKey(animal_id)].name

AnimalDiet(animal_id) ==
    CASE animal_id \in {1, 3, 5} -> "Carnivoro"
      [] animal_id = 2 -> "Herbivoro"
      [] animal_id = 4 -> "Omnivoro"

\* the correct_answer each variant's constructor takes from the animal record
CorrectAnswer(type, animal_id) ==
    CASE type = "habitat" -> AnimalHabitat(animal_id)
      [] type = "classification" -> AnimalDiet(animal_id)
      [] OTHER -> AnimalName(animal_id)

\* s.strip().lower(), on the strings the model uses
StripLower(s) ==
    CASE s \in {"Leao", " LEAO ", "leao"} -> "leao"
      [] s \in {"Coruja", " coruja"} -> "coruja"
      [] s \in {"Carnivoro", "CARNIVORO "} -> "carnivoro"
      [] s \in {"Savana Africana", "savana africana"} -> "savana africana"
      [] s \in {"Floresta Tropical"} -> "floresta tropical"
      [] s \in {"Zebra", "zebra"} -> "zebra"
      [] OTHER -> s

\* Challenge.__init__ and the variant constructors
NewChallenge(type, animal_id, difficulty) ==
    [type |-> type, animal_id |-> animal_id, difficulty |-> difficulty,
     correct_answer |-> CorrectAnswer(type, animal_id)]

\* <Variant>.validate_answer: answer.strip().lower() == correct_answer.lower()
validate_answer(ch, answer) == StripLower(answer) = StripLower(ch.correct_answer)

\* random.shuffle(s): every order of the list s
Shuffles(s) ==
    {[i \in 1..Len(s) |-> s[p[i]]] : p \in Permutations(1..Len(s))}

\* random.sample(s, k): every choice of k positions of s, in every order
Samples(s, k) ==
    {[i \in 1..k |-> s[f[i]]] :
        f \in {g \in [1..k -> 1..Len(s)] : \A i, j \in 1..k : g[i] = g[j] => i = j}}

Min(a, b) == IF a <= b THEN a ELSE b

\* get_random_animals(habitat, exclude_id, count): the lists of animal ids it can
\* return
get_random_animals(habitat, exclude_id, count) ==
    LET animals == SelectSeq(AnimalIds,
                       LAMBDA a : AnimalHabitatKey(a) = habitat /\ a # exclude_id)
        sample_size == Min(count, Len(animals))
    IN  IF sample_size = 0 THEN {<<>>} ELSE Samples(animals, sample_size)

\* AudioChallenge._create_options and VisualChallenge._create_options
_create_options(ch) ==
    UNION {Shuffles(<<ch.correct_answer>>
                    \o [i \in 1..Len(similar_animals) |-> AnimalName(similar_animals[i])]) :
              similar_animals \in
                  get_random_animals(AnimalHabitatKey(ch.animal_id), ch.animal_id, 3)}

\* <Variant>.get_options: the lists a call can return
get_options(ch) ==
    CASE ch.type \in {"audio", "visual"} -> _create_options(ch)
      [] ch.type = "habitat" ->
            {SubSeq(o, 1, 4) :
                o \in Shuffles([i \in 1..Len(HABITATS) |-> HABITATS[i].name])}
      [] ch.type = "classification" -> {<<"Carnivoro", "Herbivoro", "Omnivoro">>}

GetOptions ==
    /\ options' \in get_options(challenge)
    /\ op' = [name |-> "get_options", args |-> <<>>]

InitOptions == options = <<>>

\* no object has been created yet
InitDecorators == objects = <<>>

\* no request is being handled
InitRequests == requests = <<>>

(***************************************************************************)
(* CognitiveAnalytics (cognitive_module/cognitive_analytics.py)            *)
(***************************************************************************)
\* correct / total * 100, in hundredths of a percent
Percentage(correct, total) == (correct * 10000) \div total

NewCognitiveRecord ==
    [total_challenges |-> 0, correct_answers |-> 0, incorrect_answers |-> 0,
     accuracy_rate |-> 0,
     by_type |-> [t \in BuiltinTypes |-> [total |-> 0, correct |-> 0, accuracy |-> 0]],
     animals_discovered |-> <<>>,
     current_level |-> 1,
     categories_completed |-> <<>>]

\* variant: the first record of a user replaces the map
initialize_user_fresh_map(ud, user_id) ==
    IF user_id \in DOMAIN ud THEN ud ELSE (user_id :> NewCognitiveRecord)

initialize_user(ud, user_id) ==
    IF user_id \in DOMAIN ud THEN ud ELSE ud @@ (user_id :> NewCognitiveRecord)

InSeq(x, s) == \E i \in 1..Len(s) : s[i] = x

\* variant: the level falls back to 1 when no band of the rule applies
_calculate_level_no_keep(user) ==
    LET total == user.total_challenges
        accuracy == user.accuracy_rate
    IN  IF total < 5 THEN 1
        ELSE IF total < 15 /\ accuracy >= 6000 THEN 2
        ELSE IF total < 30 /\ accuracy >= 7000 THEN 3
        ELSE IF total < 50 /\ accuracy >= 8000 THEN 4
        ELSE IF accuracy >= 8500 THEN 5
        ELSE 1

_calculate_level(user) ==
    LET total == user.total_challenges
        accuracy == user.accuracy_rate
    IN  IF total < 5 THEN 1
        ELSE IF total < 15 /\ accuracy >= 6000 THEN 2
        ELSE IF total < 30 /\ accuracy >= 7000 THEN 3
        ELSE IF total < 50 /\ accuracy >= 8000 THEN 4
        ELSE IF accuracy >= 8500 THEN 5
        ELSE IF user.current_level > 1 THEN user.current_level ELSE 1

\* record_response: the user's record after the call, and whether the call raised
\* (KeyError at user['by_type'][challenge_type] for a type without a bucket; the
\* global counters and the accuracy rate are already written by then)
record_response(ud, user_id, ch, answer, time_taken) ==
    LET ud0 == initialize_user(ud, user_id)
        is_correct == validate_answer(ch, answer)
        u0 == ud0[user_id]
        u1 == [u0 EXCEPT !.total_challenges = @ + 1,
                         !.correct_answers = IF is_correct THEN @ + 1 ELSE @,
                         !.incorrect_answers = IF is_correct THEN @ ELSE @ + 1]
        u2 == [u1 EXCEPT !.accuracy_rate =
                  Percentage(u1.correct_answers, u1.total_challenges)]
    IN  IF ch.type \notin DOMAIN u2.by_type
        THEN [ud |-> [ud0 EXCEPT ![user_id] = u2], raised |-> TRUE]
        ELSE
          LET ts0 == u2.by_type[ch.type]
              ts1 == [ts0 EXCEPT !.total = @ + 1,
                                 !.correct = IF is_correct THEN @ + 1 ELSE @]
              ts2 == [ts1 EXCEPT !.accuracy = Percentage(ts1.correct, ts1.total)]
              u3 == [u2 EXCEPT !.by_type[ch.type] = ts2]
              u4 == IF is_correct /\ ~InSeq(ch.animal_id, u3.animals_discovered)
                    THEN [u3 EXCEPT !.animals_discovered = Append(@, ch.animal_id)]
                    ELSE u3
              u5 == [u4 EXCEPT !.current_level = _calculate_level(u4)]
          IN  [ud |-> [ud0 EXCEPT ![user_id] = u5], raised |-> FALSE]

(***************************************************************************)
(* AchievementObserver (observers/achievement_observer.py)                 *)
(***************************************************************************)
\* the keys of ACHIEVEMENTS, in the order the dictionary lists them
AchievementOrder ==
    <<"first_steps", "speed_master", "perfect_streak", "audio_expert",
      "visual_expert", "habitat_explorer", "classifier_pro", "animal_collector",
      "night_owl", "day_champion", "persistence", "perfectionist">>

\* fastest_time is None for float('inf'); type_count[t] is stats['<t>_count'];
\* accuracy_100 is None until the first completion writes the key
NewAchievementRecord ==
    [unlocked |-> {},
     stats |-> [total_completed |-> 0, total_correct |-> 0, current_streak |-> 0,
                fastest_time |-> None,
                type_count |-> [t \in BuiltinTypes |-> 0],
                animals_discovered |-> {},
                night_challenges |-> 0, day_challenges |-> 0,
                accuracy_100 |-> None],
     unlock_history |-> <<>>]

\* variant: the record is created at every contact
ach_initialize_user_always(ua, user_id) ==
    (user_id :> NewAchievementRecord) @@ ua

ach_initialize_user(ua, user_id) ==
    IF user_id \in DOMAIN ua THEN ua ELSE ua @@ (user_id :> NewAchievementRecord)

\* time_taken < stats['fastest_time']
FasterThan(time_taken, fastest) == fastest = None \/ time_taken < fastest[1]

TypeCount(stats, t) == IF t \in DOMAIN stats.type_count THEN stats.type_count[t] ELSE 0

\* ACHIEVEMENTS[id]['criteria'](stats)
\* variant: first_steps asks for a correct completion
Criteria_first_correct(id, stats) ==
    CASE id = "first_steps" -> stats.total_correct >= 1
      [] id = "speed_master" ->
            stats.fastest_time # None /\ stats.fastest_time[1] < 5
                                     /\ stats.fastest_time[1] > 0
      [] id = "perfect_streak" -> stats.current_streak >= 5
      [] id = "audio_expert" -> TypeCount(stats, "audio") >= 10
      [] id = "visual_expert" -> TypeCount(stats, "visual") >= 10
      [] id = "habitat_explorer" -> TypeCount(stats, "habitat") >= 10
      [] id = "classifier_pro" -> TypeCount(stats, "classification") >= 10
      [] id = "animal_collector" -> Cardinality(stats.animals_discovered) >= 10
      [] id = "night_owl" -> stats.night_challenges >= 5
      [] id = "day_champion" -> stats.day_challenges >= 5
      [] id = "persistence" -> stats.total_completed >= 50
      [] id = "perfectionist" ->
            stats.total_completed >= 10 /\ stats.accuracy_100 = Some(TRUE)

\* variant: perfect_streak counts the correct answers, not the current run of them
Criteria_streak_total(id, stats) ==
    CASE id = "first_steps" -> stats.total_completed >= 1
      [] id = "speed_master" ->
            stats.fastest_time # None /\ stats.fastest_time[1] < 5
                                     /\ stats.fastest_time[1] > 0
      [] id = "perfect_streak" -> stats.total_correct >= 5
      [] id = "audio_expert" -> TypeCount(stats, "audio") >= 10
      [] id = "visual_expert" -> TypeCount(stats, "visual") >= 10
      [] id = "habitat_explorer" -> TypeCount(stats, "habitat") >= 10
      [] id = "classifier_pro" -> TypeCount(stats, "classification") >= 10
      [] id = "animal_collector" -> Cardinality(stats.animals_discovered) >= 10
      [] id = "night_owl" -> stats.night_challenges >= 5
      [] id = "day_champion" -> stats.day_challenges >= 5
      [] id = "persistence" -> stats.total_completed >= 50
      [] id = "perfectionist" ->
            stats.total_completed >= 10 /\ stats.accuracy_100 = Some(TRUE)

\* variant: perfectionist asks for ten correct answers, whatever else was answered
Criteria_ten_correct(id, stats) ==
    CASE id = "first_steps" -> stats.total_completed >= 1
      [] id = "speed_master" ->
            stats.fastest_time # None /\ stats.fastest_time[1] < 5
                                     /\ stats.fastest_time[1] > 0
      [] id = "perfect_streak" -> stats.current_streak >= 5
      [] id = "audio_expert" -> TypeCount(stats, "audio") >= 10
      [] id = "visual_expert" -> TypeCount(stats, "visual") >= 10
      [] id = "habitat_explorer" -> TypeCount(stats, "habitat") >= 10
      [] id = "classifier_pro" -> TypeCount(stats, "classification") >= 10
      [] id = "animal_collector" -> Cardinality(stats.animals_discovered) >= 10
      [] id = "night_owl" -> stats.night_challenges >= 5
      [] id = "day_champion" -> stats.day_challenges >= 5
      [] id = "persistence" -> stats.total_completed >= 50
      [] id = "perfectionist" ->
            stats.total_completed >= 10 /\ stats.total_correct >= 10

Criteria(id, stats) ==
    CASE id = "first_steps" -> stats.total_completed >= 1
      [] id = "speed_master" ->
            stats.fastest_time # None /\ stats.fastest_time[1] < 5
                                     /\ stats.fastest_time[1] > 0
      [] id = "perfect_streak" -> stats.current_streak >= 5
      [] id = "audio_expert" -> TypeCount(stats, "audio") >= 10
      [] id = "visual_expert" -> TypeCount(stats, "visual") >= 10
      [] id = "habitat_explorer" -> TypeCount(stats, "habitat") >= 10
      [] id = "classifier_pro" -> TypeCount(stats, "classification") >= 10
      [] id = "animal_collector" -> Cardinality(stats.animals_discovered) >= 10
      [] id = "night_owl" -> stats.night_challenges >= 5
      [] id = "day_champion" -> stats.day_challenges >= 5
      [] id = "persistence" -> stats.total_completed >= 50
      [] id = "perfectionist" ->
            stats.total_completed >= 10 /\ stats.accuracy_100 = Some(TRUE)

RECURSIVE CheckFrom_relog(_, _)
\* variant: the loop does not skip the achievements already unlocked
CheckFrom_relog(rec, i) ==
    IF i > Len(AchievementOrder) THEN rec
    ELSE LET id == AchievementOrder[i]
         IN  IF Criteria(id, rec.stats)
             THEN CheckFrom_relog([rec EXCEPT !.unlocked = @ \cup {id},
                                              !.unlock_history = Append(@, id)],
                                  i + 1)
             ELSE CheckFrom_relog(rec, i + 1)

RECURSIVE CheckFrom(_, _)
\* the loop of _check_achievements from position i of ACHIEVEMENTS
CheckFrom(rec, i) ==
    IF i > Len(AchievementOrder) THEN rec
    ELSE LET id == AchievementOrder[i]
         IN  IF id \in rec.unlocked THEN CheckFrom(rec, i + 1)
             ELSE IF Criteria(id, rec.stats)
                  THEN CheckFrom([rec EXCEPT !.unlocked = @ \cup {id},
                                             !.unlock_history = Append(@, id)],
                                 i + 1)
                  ELSE CheckFrom(rec, i + 1)

_check_achievements(rec) == CheckFrom(rec, 1)

\* variant: an incorrect answer leaves the streak as it was
ach_on_challenge_completed_keep_streak(ua, user_id, ch, answer, time_taken, is_correct) ==
    LET ua0 == ach_initialize_user(ua, user_id)
        s0 == ua0[user_id].stats
        s1 == [s0 EXCEPT !.total_completed = @ + 1,
                         !.total_correct = IF is_correct THEN @ + 1 ELSE @]
        s2 == [s1 EXCEPT !.current_streak = IF is_correct THEN @ + 1 ELSE @]
        s3 == IF is_correct /\ FasterThan(time_taken, s2.fastest_time)
              THEN [s2 EXCEPT !.fastest_time = Some(time_taken)] ELSE s2
        s4 == [s3 EXCEPT !.type_count =
                  IF ch.type \in DOMAIN @ THEN [@ EXCEPT ![ch.type] = @ + 1]
                  ELSE @ @@ (ch.type :> 1)]
        s5 == IF is_correct
              THEN [s4 EXCEPT !.animals_discovered = @ \cup {ch.animal_id}] ELSE s4
        s6 == [s5 EXCEPT !.accuracy_100 = Some(s5.total_correct = s5.total_completed)]
    IN  [ua0 EXCEPT ![user_id] = _check_achievements([@ EXCEPT !.stats = s6])]

ach_on_challenge_completed(ua, user_id, ch, answer, time_taken, is_correct) ==
    LET ua0 == ach_initialize_user(ua, user_id)
        s0 == ua0[user_id].stats
        s1 == [s0 EXCEPT !.total_completed = @ + 1,
                         !.total_correct = IF is_correct THEN @ + 1 ELSE @]
        s2 == [s1 EXCEPT !.current_streak = IF is_correct THEN @ + 1 ELSE 0]
        s3 == IF is_correct /\ FasterThan(time_taken, s2.fastest_time)
              THEN [s2 EXCEPT !.fastest_time = Some(time_taken)] ELSE s2
        s4 == [s3 EXCEPT !.type_count =
                  IF ch.type \in DOMAIN @ THEN [@ EXCEPT ![ch.type] = @ + 1]
                  ELSE @ @@ (ch.type :> 1)]
        s5 == IF is_correct
              THEN [s4 EXCEPT !.animals_discovered = @ \cup {ch.animal_id}] ELSE s4
        s6 == [s5 EXCEPT !.accuracy_100 = Some(s5.total_correct = s5.total_completed)]
    IN  [ua0 EXCEPT ![user_id] = _check_achievements([@ EXCEPT !.stats = s6])]

(***************************************************************************)
(* InveniraObserver (observers/invenira_observer.py)                       *)
(***************************************************************************)
max_queue_size == 10

\* variant: the queue is not emptied after the batch is sent
_flush_queue_keep_queue(sink) ==
    IF sink.queue = <<>> THEN sink
    ELSE [queue |-> sink.queue, sent |-> Append(sink.sent, sink.queue)]

\* the sink: the pending queue and the batches sent so far
\* _flush_queue: nothing on an empty queue, else one batch and an empty queue
_flush_queue(sink) ==
    IF sink.queue = <<>> THEN sink
    ELSE [queue |-> <<>>, sent |-> Append(sink.sent, sink.queue)]

\* variant: the batch is sent when the queue holds more than max_queue_size events
_queue_event_late(sink, event) ==
    LET q == [sink EXCEPT !.queue = Append(@, event)]
    IN  IF Len(q.queue) > max_queue_size THEN _flush_queue(q) ELSE q

_queue_event(sink, event) ==
    LET q == [sink EXCEPT !.queue = Append(@, event)]
    IN  IF Len(q.queue) >= max_queue_size THEN _flush_queue(q) ELSE q

CompletedEvent(user_id, ch, answer, time_taken, is_correct) ==
    [event_type |-> "challenge_completed", student_id |-> user_id,
     type |-> ch.type, difficulty |-> ch.difficulty, animal_id |-> ch.animal_id,
     is_correct |-> is_correct, time_taken |-> time_taken, answer_given |-> answer]

StartedEvent(user_id, ch) ==
    [event_type |-> "challenge_started", student_id |-> user_id,
     type |-> ch.type, difficulty |-> ch.difficulty, animal_id |-> ch.animal_id]

SkippedEvent(user_id, ch) ==
    [event_type |-> "challenge_skipped", student_id |-> user_id,
     type |-> ch.type, animal_id |-> ch.animal_id]

LevelUpEvent(user_id, new_level, metrics) ==
    [event_type |-> "level_up", student_id |-> user_id, new_level |-> new_level,
     total_challenges |-> metrics.total_challenges,
     accuracy_rate |-> metrics.accuracy_rate]

notify_level_up(sink, user_id, new_level, metrics) ==
    _queue_event(sink, LevelUpEvent(user_id, new_level, metrics))

AchievementEvent(user_id, achievement_id, achievement_name) ==
    [event_type |-> "achievement_unlocked", student_id |-> user_id,
     achievement_id |-> achievement_id, achievement_name |-> achievement_name]

notify_achievement(sink, user_id, achievement_id, achievement_name) ==
    _queue_event(sink, AchievementEvent(user_id, achievement_id, achievement_name))

get_pending_events(sink) == Len(sink.queue)

force_flush(sink) == _flush_queue(sink)

(***************************************************************************)
(* LevelProgressionObserver (observers/level_progression_observer.py)      *)
(***************************************************************************)
\* LEVELS[level]['xp_required']
XpRequired(level) ==
    CASE level = 1 -> 0
      [] level = 2 -> 100
      [] level = 3 -> 300
      [] level = 4 -> 600
      [] level = 5 -> 1000
      [] level = 6 -> 1500
      [] level = 7 -> 2200
      [] level = 8 -> 3000

MaxLevel == 8

\* XP_MULTIPLIERS.get(type, 1.0), in tenths
XpMultiplier(type) ==
    CASE type = "audio" -> 10
      [] type = "visual" -> 11
      [] type = "habitat" -> 12
      [] type = "classification" -> 15
      [] OTHER -> 10

\* difficulty_map.get(challenge.difficulty, 0); a difficulty is the text of what
\* the caller passed: "1" .. "5" for the integers the factory passes, or a tier name
DifficultyBonus(difficulty) ==
    CASE difficulty = "easy" -> 0
      [] difficulty = "medium" -> 5
      [] difficulty = "hard" -> 10
      [] OTHER -> 0

\* variant: the limits of the speed bands belong to the faster band
SpeedBonus_inclusive(time_taken) ==
    IF time_taken <= 5 THEN 10
    ELSE IF time_taken <= 10 THEN 5
    ELSE IF time_taken <= 20 THEN 2
    ELSE 0

SpeedBonus(time_taken) ==
    IF time_taken < 5 THEN 10
    ELSE IF time_taken < 10 THEN 5
    ELSE IF time_taken < 20 THEN 2
    ELSE 0

\* int((base_xp + difficulty_bonus) * type_multiplier + speed_bonus)
_calculate_xp(ch, is_correct, time_taken) ==
    IF ~is_correct THEN 0
    ELSE ((10 + DifficultyBonus(ch.difficulty)) * XpMultiplier(ch.type)) \div 10
         + SpeedBonus(time_taken)

\* the level observer was built with invenira_observer=invenira_observer
\* (cognitive_endpoints.py, register_cognitive_routes)
InveniraConfigured == TRUE

NewProgressionRecord ==
    [level |-> 1, current_xp |-> 0, total_xp_earned |-> 0,
     challenges_completed |-> 0, level_up_history |-> <<>>]

lvl_initialize_user(up, user_id) ==
    IF user_id \in DOMAIN up THEN up ELSE up @@ (user_id :> NewProgressionRecord)

RECURSIVE LevelFrom_exclusive(_, _, _)
\* variant: a level is reached only above its threshold
LevelFrom_exclusive(current_xp, current_level, l) ==
    IF l > MaxLevel THEN current_level
    ELSE IF current_xp > XpRequired(l) \/ l = 1
         THEN LevelFrom_exclusive(current_xp, l, l + 1)
    ELSE current_level

RECURSIVE LevelFrom(_, _, _)
\* the loop of _check_level_up over sorted(LEVELS), from level l
LevelFrom(current_xp, current_level, l) ==
    IF l > MaxLevel THEN current_level
    ELSE IF current_xp >= XpRequired(l) THEN LevelFrom(current_xp, l, l + 1)
    ELSE current_level

_check_level_up(user) == LevelFrom(user.current_xp, user.level, 1)

\* variant: the record names the level just below the new one as the old level,
\* and the sink is not told
_handle_level_up_last_step(user, sink, user_id, old_level, new_level) ==
    LET rec == [old_level |-> new_level - 1, new_level |-> new_level,
                total_xp |-> user.total_xp_earned,
                challenges_completed |-> user.challenges_completed]
    IN  [user |-> [user EXCEPT !.level_up_history = Append(@, rec)],
         sink |-> sink]

\* _handle_level_up: the history record, and the level_up event for the sink
_handle_level_up(user, sink, user_id, old_level, new_level) ==
    LET rec == [old_level |-> old_level, new_level |-> new_level,
                total_xp |-> user.total_xp_earned,
                challenges_completed |-> user.challenges_completed]
        metrics == [total_challenges |-> user.challenges_completed,
                    total_xp |-> user.total_xp_earned, accuracy_rate |-> 0]
    IN  [user |-> [user EXCEPT !.level_up_history = Append(@, rec)],
         sink |-> IF InveniraConfigured
                  THEN notify_level_up(sink, user_id, new_level, metrics)
                  ELSE sink]

\* the part on_challenge_completed and award_bonus_xp share: add the XP, recompute
\* the level, handle a level-up
AddXp(up, sink, user_id, xp_earned, completed) ==
    LET up0 == lvl_initialize_user(up, user_id)
        u0 == up0[user_id]
        old_level == u0.level
        u1 == [u0 EXCEPT !.current_xp = @ + xp_earned,
                         !.total_xp_earned = @ + xp_earned,
                         !.challenges_completed = @ + completed]
        new_level == _check_level_up(u1)
        u2 == [u1 EXCEPT !.level = new_level]
        h == IF new_level > old_level
             THEN _handle_level_up(u2, sink, user_id, old_level, new_level)
             ELSE [user |-> u2, sink |-> sink]
    IN  [up |-> [up0 EXCEPT ![user_id] = h.user], sink |-> h.sink]

\* variant: a completion counts for the level observer only when it is correct
lvl_on_challenge_completed_correct_only(up, sink, user_id, ch, answer, time_taken, is_correct) ==
    AddXp(up, sink, user_id, _calculate_xp(ch, is_correct, time_taken),
          IF is_correct THEN 1 ELSE 0)

lvl_on_challenge_completed(up, sink, user_id, ch, answer, time_taken, is_correct) ==
    AddXp(up, sink, user_id, _calculate_xp(ch, is_correct, time_taken), 1)

award_bonus_xp(up, sink, user_id, amount) == AddXp(up, sink, user_id, amount, 0)

(***************************************************************************)
(* Observer dispatch (models/challenge.py) and the handlers of the four    *)
(* observers cognitive_endpoints.py creates.  A dispatch works on          *)
(*   st = [ud, ua, up, sink, calls, raised]                                *)
(* the observers' stores, the handler calls made so far and whether a      *)
(* handler raised.  An event is [user_id, answer, time_taken, is_correct]. *)
(***************************************************************************)
ObserverNames == {"analytics", "achievement", "invenira", "level"}

\* attach_observers_to_challenge attaches them in this order
EndpointObservers == <<"analytics", "achievement", "invenira", "level">>

on_challenge_started(o, st, ch, ev) ==
    CASE o = "analytics" -> [st EXCEPT !.ud = initialize_user(@, ev.user_id)]
      [] o = "achievement" -> [st EXCEPT !.ua = ach_initialize_user(@, ev.user_id)]
      [] o = "invenira" ->
            [st EXCEPT !.sink = _queue_event(@, StartedEvent(ev.user_id, ch))]
      [] o = "level" -> [st EXCEPT !.up = lvl_initialize_user(@, ev.user_id)]

\* AnalyticsObserver.on_challenge_completed passes user, challenge, answer and
\* time_taken to record_response; is_correct only chooses the text it prints
analytics_on_challenge_completed(st, ch, ev) ==
    LET r == record_response(st.ud, ev.user_id, ch, ev.answer, ev.time_taken)
    IN  [st EXCEPT !.ud = r.ud, !.raised = r.raised]

on_challenge_completed(o, st, ch, ev) ==
    CASE o = "analytics" -> analytics_on_challenge_completed(st, ch, ev)
      [] o = "achievement" ->
            [st EXCEPT !.ua = ach_on_challenge_completed(@, ev.user_id, ch,
                                  ev.answer, ev.time_taken, ev.is_correct)]
      [] o = "invenira" ->
            [st EXCEPT !.sink = _queue_event(@, CompletedEvent(ev.user_id, ch,
                                  ev.answer, ev.time_taken, ev.is_correct))]
      [] o = "level" ->
            LET r == lvl_on_challenge_completed(st.up, st.sink, ev.user_id, ch,
                                  ev.answer, ev.time_taken, ev.is_correct)
            IN  [st EXCEPT !.up = r.up, !.sink = r.sink]

\* only the sink overrides the empty hook of ChallengeObserver; the analytics
\* observer's override prints and changes nothing
on_challenge_skipped(o, st, ch, ev) ==
    CASE o = "invenira" ->
            [st EXCEPT !.sink = _queue_event(@, SkippedEvent(ev.user_id, ch))]
      [] OTHER -> st

Handler(kind, o, st, ch, ev) ==
    CASE kind = "started" -> on_challenge_started(o, st, ch, ev)
      [] kind = "completed" -> on_challenge_completed(o, st, ch, ev)
      [] kind = "skipped" -> on_challenge_skipped(o, st, ch, ev)

RECURSIVE NotifyFrom(_, _, _, _, _, _)
\* "for observer in self._observers: observer.on_...(...)" from position i; an
\* exception of a handler leaves the loop and the notify_* call
NotifyFrom(kind, obs, i, st, ch, ev) ==
    IF i > Len(obs) \/ st.raised THEN st
    ELSE NotifyFrom(kind, obs, i + 1,
                    Handler(kind, obs[i], [st EXCEPT !.calls = Append(@, obs[i])], ch, ev),
                    ch, ev)

Stores ==
    [ud |-> user_data, ua |-> user_achievements, up |-> user_progression,
     sink |-> [queue |-> event_queue, sent |-> batches],
     calls |-> <<>>, raised |-> FALSE]

\* notify_started / notify_completed / notify_skipped on the challenge ch whose
\* observer list is obs
NotifyOn(ch, obs, kind, ev) ==
    LET st == NotifyFrom(kind, obs, 1, Stores, ch, ev)
    IN  /\ challenge' = ch
        /\ observers' = obs
        /\ user_data' = st.ud
        /\ user_achievements' = st.ua
        /\ user_progression' = st.up
        /\ event_queue' = st.sink.queue
        /\ batches' = st.sink.sent
        /\ calls' = st.calls
        /\ raised' = st.raised
        /\ op' = [name |-> "notify_" \o kind, args |-> ev]
        /\ nnotify' = nnotify + 1
        /\ UNCHANGED nawards

\* on the current challenge instance
Notify(kind, ev) == NotifyOn(challenge, observers, kind, ev)

\* ChallengeFactory.create_challenge: a new instance, with no observers yet
CreateChallenge(type, animal_id) ==
    /\ challenge' = NewChallenge(type, animal_id, "1")
    /\ observers' = <<>>
    /\ calls' = <<>>
    /\ raised' = FALSE
    /\ op' = [name |-> "create", args |-> <<type, animal_id>>]
    /\ UNCHANGED <<user_data, user_achievements, user_progression, event_queue,
                   batches, nnotify, nawards>>

\* "if observer not in self._observers: self._observers.append(observer)"
\* variant: attach without the membership test
attach_unchecked(obs, o) == Append(obs, o)

attach(obs, o) == IF InSeq(o, obs) THEN obs ELSE Append(obs, o)

\* "if observer in self._observers: self._observers.remove(observer)"
detach(obs, o) == SelectSeq(obs, LAMBDA x : x # o)

Attach(o) ==
    /\ observers' = attach(observers, o)
    /\ calls' = <<>>
    /\ raised' = FALSE
    /\ op' = [name |-> "attach", args |-> o]
    /\ UNCHANGED <<challenge, user_data, user_achievements, user_progression,
                   event_queue, batches, nnotify, nawards>>

Detach(o) ==
    /\ observers' = detach(observers, o)
    /\ calls' = <<>>
    /\ raised' = FALSE
    /\ op' = [name |-> "detach", args |-> o]
    /\ UNCHANGED <<challenge, user_data, user_achievements, user_progression,
                   event_queue, batches, nnotify, nawards>>

NotifyStarted(user_id) ==
    Notify("started", [user_id |-> user_id])

NotifyCompleted(user_id, answer, time_taken, is_correct) ==
    Notify("completed", [user_id |-> user_id, answer |-> answer,
                         time_taken |-> time_taken, is_correct |-> is_correct])

NotifySkipped(user_id) ==
    Notify("skipped", [user_id |-> user_id])

(***************************************************************************)
(* ChallengeFactory (factories/challenge_factory.py).  The registry is the *)
(* class attribute _challenge_types, a dict: here the sequence of its      *)
(* items in insertion order.  A factory call returns                       *)
(*   [raised, listed, value, types]                                        *)
(* the exception class raised ("none" when the call returned), the type    *)
(* names the exception message lists, the challenges returned and the type *)
(* names returned.                                                         *)
(***************************************************************************)
_challenge_types ==
    << [name |-> "audio", class |-> "AudioChallenge"],
       [name |-> "visual", class |-> "VisualChallenge"],
       [name |-> "habitat", class |-> "HabitatChallenge"],
       [name |-> "classification", class |-> "ClassificationChallenge"] >>

\* issubclass(challenge_class, Challenge)
IsChallengeSubclass(class) ==
    class \in {"AudioChallenge", "VisualChallenge", "HabitatChallenge",
               "ClassificationChallenge", "NightChallenge"}

\* <class>.get_challenge_type()
ClassType(class) ==
    CASE class = "AudioChallenge" -> "audio"
      [] class = "VisualChallenge" -> "visual"
      [] class = "HabitatChallenge" -> "habitat"
      [] class = "ClassificationChallenge" -> "classification"
      [] class = "NightChallenge" -> CustomType

\* challenge_class(animal_id, difficulty)
NewInstance(class, animal_id, difficulty) ==
    [class |-> class, challenge |-> NewChallenge(ClassType(class), animal_id, difficulty)]

\* _challenge_types.keys()
Keys(reg) == [i \in 1..Len(reg) |-> reg[i].name]

\* type_name in _challenge_types
Registered(reg, type_name) == \E i \in 1..Len(reg) : reg[i].name = type_name

\* get_challenge_class: _challenge_types.get(challenge_type)
get_challenge_class(reg, challenge_type) ==
    IF Registered(reg, challenge_type)
    THEN Some(reg[CHOOSE i \in 1..Len(reg) : reg[i].name = challenge_type].class)
    ELSE None

Returned(value, types) ==
    [raised |-> "none", listed |-> <<>>, value |-> value, types |-> types]

Raised(exception, listed) ==
    [raised |-> exception, listed |-> listed, value |-> <<>>, types |-> <<>>]

\* variant: the message of create_challenge lists the built-in types
create_challenge_builtin_list(reg, challenge_type, animal_id, difficulty) ==
    LET challenge_class == get_challenge_class(reg, challenge_type)
    IN  IF challenge_class = None
        THEN Raised("ValueError", Keys(_challenge_types))
        ELSE Returned(<<NewInstance(challenge_class[1], animal_id, difficulty)>>, <<>>)

create_challenge(reg, challenge_type, animal_id, difficulty) ==
    LET challenge_class == get_challenge_class(reg, challenge_type)
    IN  IF challenge_class = None
        THEN Raised("ValueError", Keys(reg))
        ELSE Returned(<<NewInstance(challenge_class[1], animal_id, difficulty)>>, <<>>)

get_available_types(reg) == Returned(<<>>, Keys(reg))

\* variant: register_challenge_type as a plain dict assignment
register_challenge_type_overwrite(reg, type_name, challenge_class) ==
    IF ~IsChallengeSubclass(challenge_class)
    THEN [registry |-> reg, fret |-> Raised("TypeError", <<>>)]
    ELSE IF Registered(reg, type_name)
    THEN [registry |-> [i \in 1..Len(reg) |->
                           IF reg[i].name = type_name
                           THEN [name |-> type_name, class |-> challenge_class]
                           ELSE reg[i]],
          fret |-> Returned(<<>>, <<>>)]
    ELSE [registry |-> Append(reg, [name |-> type_name, class |-> challenge_class]),
          fret |-> Returned(<<>>, <<>>)]

\* the registry after the call and what the call returned or raised
register_challenge_type(reg, type_name, challenge_class) ==
    IF ~IsChallengeSubclass(challenge_class)
    THEN [registry |-> reg, fret |-> Raised("TypeError", <<>>)]
    ELSE IF Registered(reg, type_name)
    THEN [registry |-> reg, fret |-> Raised("ValueError", <<>>)]
    ELSE [registry |-> Append(reg, [name |-> type_name, class |-> challenge_class]),
          fret |-> Returned(<<>>, <<>>)]

unregister_challenge_type(reg, type_name) ==
    IF ~Registered(reg, type_name)
    THEN [registry |-> reg, fret |-> Raised("KeyError", <<>>)]
    ELSE [registry |-> SelectSeq(reg, LAMBDA e : e.name # type_name),
          fret |-> Returned(<<>>, <<>>)]

RECURSIVE SetFrom(_, _, _, _)
\* the list comprehension of create_challenge_set, from position i of the keys
SetFrom(reg, i, animal_id, difficulty) ==
    IF i > Len(reg) THEN <<>>
    ELSE create_challenge(reg, reg[i].name, animal_id, difficulty).value
         \o SetFrom(reg, i + 1, animal_id, difficulty)

\* variant: create_challenge_set over the built-in types
create_challenge_set_builtin(reg, animal_id, difficulty) ==
    Returned(SetFrom(_challenge_types, 1, animal_id, difficulty), <<>>)

create_challenge_set(reg, animal_id, difficulty) ==
    Returned(SetFrom(reg, 1, animal_id, difficulty), <<>>)

\* the factory's operations, each called by some caller
FactoryCall(name, args, reg, result) ==
    /\ registry' = reg
    /\ fret' = result
    /\ op' = [name |-> name, args |-> args]

CreateChallengeCall(caller, challenge_type, animal_id) ==
    FactoryCall("create_challenge",
                [caller |-> caller, type |-> challenge_type, animal_id |-> animal_id],
                registry,
                create_challenge(registry, challenge_type, animal_id, "1"))

GetAvailableTypes(caller) ==
    FactoryCall("get_available_types", [caller |-> caller], registry,
                get_available_types(registry))

RegisterChallengeType(caller, type_name, challenge_class) ==
    LET r == register_challenge_type(registry, type_name, challenge_class)
    IN  FactoryCall("register_challenge_type",
                    [caller |-> caller, type |-> type_name, class |-> challenge_class],
                    r.registry, r.fret)

UnregisterChallengeType(caller, type_name) ==
    LET r == unregister_challenge_type(registry, type_name)
    IN  FactoryCall("unregister_challenge_type",
                    [caller |-> caller, type |-> type_name],
                    r.registry, r.fret)

CreateChallengeSet(caller, animal_id) ==
    FactoryCall("create_challenge_set",
                [caller |-> caller, animal_id |-> animal_id], registry,
                create_challenge_set(registry, animal_id, "1"))

InitFactory ==
    /\ registry = _challenge_types
    /\ fret = Returned(<<>>, <<>>)

(***************************************************************************)
(* Spec: one challenge instance at a time, created by the factory, with    *)
(* observers attached and detached freely and the three events fired on it.*)
(***************************************************************************)
MaxNotify == 2

SpecUsers == {"u1"}

SpecObservers == {"analytics", "achievement", "level"}

SpecTypes == {"audio", CustomType}

SpecAnswers == {" LEAO "}

SpecTimes == {3}

\* TimedChallengeDecorator.__init__
InitTimed ==
    /\ now = 0
    /\ time_limit_seconds = 1
    /\ start_time = None
    /\ end_time = None
    /\ answer_submitted = FALSE
    /\ ret = None
    /\ nticks = 0

InitObservers ==
    /\ observers = <<>>
    /\ user_data = <<>>
    /\ user_achievements = <<>>
    /\ user_progression = <<>>
    /\ event_queue = <<>>
    /\ batches = <<>>
    /\ calls = <<>>
    /\ raised = FALSE
    /\ nnotify = 0
    /\ nawards = 0
    /\ op = [name |-> "init", args |-> <<>>]

Init ==
    /\ challenge \in {NewChallenge(t, 1, "1") : t \in SpecTypes}
    /\ InitObservers
    /\ InitOptions
    /\ InitDecorators
    /\ InitRequests
    /\ InitTimed
    /\ registry = register_challenge_type(_challenge_types, CustomType,
                                          "NightChallenge").registry
    /\ fret = Returned(<<>>, <<>>)

Next ==
    \/ \E t \in SpecTypes : CreateChallenge(t, 1) /\ UNCHANGED <<timedVars, factoryVars, otherVars>>
    \/ \E o \in SpecObservers : Attach(o) /\ UNCHANGED <<timedVars, factoryVars, otherVars>>
    \/ \E o \in SpecObservers : Detach(o) /\ UNCHANGED <<timedVars, factoryVars, otherVars>>
    \/ \E u \in SpecUsers :
          nnotify < MaxNotify /\ NotifyStarted(u) /\ UNCHANGED <<timedVars, factoryVars, otherVars>>
    \/ \E u \in SpecUsers, a \in SpecAnswers, t \in SpecTimes, c \in BOOLEAN :
          nnotify < MaxNotify /\ NotifyCompleted(u, a, t, c) /\ UNCHANGED <<timedVars, factoryVars, otherVars>>
    \/ \E u \in SpecUsers :
          nnotify < MaxNotify /\ NotifySkipped(u) /\ UNCHANGED <<timedVars, factoryVars, otherVars>>

Spec == Init /\ [][Next]_vars

(***************************************************************************)
(* SpecAll: challenges set up as cognitive_endpoints.py sets them up.  Each *)
(* step creates a challenge of a built-in type, attaches the four observers*)
(* with attach_observers_to_challenge and makes one notify_* call on it;   *)
(* the caller of notify_completed chooses answer and is_correct freely.    *)
(***************************************************************************)
AllUsers == {"u1", "u2"}

AllAnswers == {" LEAO ", "Zebra"}

AllTimes == {3}

\* attach_observers_to_challenge, on an observer list
attach_observers_to_challenge(obs) ==
    attach(attach(attach(attach(obs, "analytics"), "achievement"), "invenira"), "level")

Request(kind, type, animal_id, ev) ==
    NotifyOn(NewChallenge(type, animal_id, "1"),
             attach_observers_to_challenge(<<>>), kind, ev)

RequestStarted(user_id, type, animal_id) ==
    Request("started", type, animal_id, [user_id |-> user_id])

RequestCompleted(user_id, type, animal_id, answer, time_taken, is_correct) ==
    Request("completed", type, animal_id,
            [user_id |-> user_id, answer |-> answer, time_taken |-> time_taken,
             is_correct |-> is_correct])

RequestSkipped(user_id, type, animal_id) ==
    Request("skipped", type, animal_id, [user_id |-> user_id])

InitAll ==
    /\ challenge = NewChallenge("audio", 1, "1")
    /\ InitObservers
    /\ InitOptions
    /\ InitDecorators
    /\ InitRequests
    /\ InitTimed
    /\ InitFactory

NextAll ==
    \/ \E u \in AllUsers, t \in BuiltinTypes :
          nnotify < MaxNotify /\ RequestStarted(u, t, 1) /\ UNCHANGED <<timedVars, factoryVars, otherVars>>
    \/ \E u \in AllUsers, t \in BuiltinTypes, a \in AllAnswers, d \in AllTimes,
          c \in BOOLEAN :
          nnotify < MaxNotify /\ RequestCompleted(u, t, 1, a, d, c)
                              /\ UNCHANGED <<timedVars, factoryVars, otherVars>>
    \/ \E u \in AllUsers, t \in BuiltinTypes :
          nnotify < MaxNotify /\ RequestSkipped(u, t, 1) /\ UNCHANGED <<timedVars, factoryVars, otherVars>>

SpecAll == InitAll /\ [][NextAll]_vars

(***************************************************************************)
(* TimedChallengeDecorator (decorators/timed_decorator.py).                *)
(* The clock counts ticks of 2 ms; the decorator's seconds, rounded to two *)
(* decimals, are centiseconds here (one centisecond is 5 ticks).           *)
(***************************************************************************)
TicksPerCs == 5

CsPerSecond == 100

\* round(timedelta.total_seconds(), 2), as centiseconds: a remainder of 2 or 4 ms
\* rounds down, one of 6 or 8 ms rounds up
Round2(ticks) == (ticks + 2) \div TicksPerCs

\* get_elapsed_time, in centiseconds
get_elapsed_time(start, end, clock) ==
    IF start = None THEN 0
    ELSE LET end_point == IF end # None THEN end[1] ELSE clock
         IN  Round2(end_point - start[1])

Max(a, b) == IF a >= b THEN a ELSE b

\* variant: the remaining time without the floor at 0
get_remaining_time_unfloored(start, end, clock, limit) ==
    IF start = None THEN limit * CsPerSecond
    ELSE limit * CsPerSecond - get_elapsed_time(start, end, clock)

\* get_remaining_time, in centiseconds
get_remaining_time(start, end, clock, limit) ==
    IF start = None THEN limit * CsPerSecond
    ELSE Max(0, limit * CsPerSecond - get_elapsed_time(start, end, clock))

\* variant: timed out as soon as the elapsed time reaches the limit
is_timed_out_at_limit(start, end, clock, limit) ==
    IF start = None THEN FALSE
    ELSE get_elapsed_time(start, end, clock) >= limit * CsPerSecond

is_timed_out(start, end, clock, limit) ==
    IF start = None THEN FALSE
    ELSE get_elapsed_time(start, end, clock) > limit * CsPerSecond

\* get_time_pressure_level: (remaining / limit) * 100 compared with 50, 25, 10
get_time_pressure_level(start, end, clock, limit) ==
    IF start = None THEN "none"
    ELSE LET remaining == get_remaining_time(start, end, clock, limit)
         IN  IF remaining > 50 * limit THEN "low"
             ELSE IF remaining > 25 * limit THEN "medium"
             ELSE IF remaining > 10 * limit THEN "high"
             ELSE "critical"

\* the derived values of the decorator in the current state
Elapsed == get_elapsed_time(start_time, end_time, now)

Remaining == get_remaining_time(start_time, end_time, now, time_limit_seconds)

TimedOut == is_timed_out(start_time, end_time, now, time_limit_seconds)

Pressure == get_time_pressure_level(start_time, end_time, now, time_limit_seconds)

\* datetime.now() moves on by d ticks
Tick(d) ==
    /\ now' = now + d
    /\ nticks' = nticks + 1
    /\ op' = [name |-> "tick", args |-> d]
    /\ UNCHANGED <<time_limit_seconds, start_time, end_time, answer_submitted, ret>>

\* variant: start_timer that leaves the latch and _end_time of the last run
StartTimer_keep_latch ==
    /\ start_time' = Some(now)
    /\ ret' = None
    /\ op' = [name |-> "start_timer", args |-> <<>>]
    /\ UNCHANGED <<now, time_limit_seconds, nticks, end_time, answer_submitted>>

\* variant: start_timer that clears the latch but leaves _end_time
StartTimer_keep_end ==
    /\ start_time' = Some(now)
    /\ answer_submitted' = FALSE
    /\ ret' = None
    /\ op' = [name |-> "start_timer", args |-> <<>>]
    /\ UNCHANGED <<now, time_limit_seconds, nticks, end_time>>

StartTimer ==
    /\ start_time' = Some(now)
    /\ end_time' = None
    /\ answer_submitted' = FALSE
    /\ ret' = None
    /\ op' = [name |-> "start_timer", args |-> <<>>]
    /\ UNCHANGED <<now, time_limit_seconds, nticks>>

ResetTimer ==
    /\ start_time' = None
    /\ end_time' = None
    /\ answer_submitted' = FALSE
    /\ ret' = None
    /\ op' = [name |-> "reset_timer", args |-> <<>>]
    /\ UNCHANGED <<now, time_limit_seconds, nticks>>

\* variant: every validate call takes the time of the call
LatchedEnd_every_call == Some(now)

\* "if not self._answer_submitted: self._end_time = datetime.now(); ... = True"
LatchedEnd == IF ~answer_submitted THEN Some(now) ELSE end_time

\* TimedChallengeDecorator.validate_answer
ValidateAnswer(answer) ==
    /\ end_time' = LatchedEnd
    /\ answer_submitted' = TRUE
    /\ ret' = [is_correct |->
                 IF is_timed_out(start_time, LatchedEnd, now, time_limit_seconds)
                 THEN FALSE
                 ELSE validate_answer(challenge, answer)]
    /\ op' = [name |-> "validate_answer", args |-> answer]
    /\ UNCHANGED <<now, time_limit_seconds, start_time, nticks>>

\* variant: validate_answer_with_timing that validates the answer whether or not
\* the time is up
ValidateAnswerWithTiming_ignore_timeout(answer) ==
    LET end == LatchedEnd
        timed_out == is_timed_out(start_time, end, now, time_limit_seconds)
        is_correct == validate_answer(challenge, answer)
    IN  /\ end_time' = end
        /\ answer_submitted' = TRUE
        /\ ret' = [is_correct |-> is_correct,
                   time_taken |-> get_elapsed_time(start_time, end, now),
                   timed_out |-> timed_out,
                   time_remaining |->
                       get_remaining_time(start_time, end, now, time_limit_seconds),
                   time_limit |-> time_limit_seconds,
                   correct_answer |->
                       IF ~is_correct THEN Some(challenge.correct_answer) ELSE None,
                   timeout_message |->
                       IF ~is_correct /\ timed_out THEN Some(time_limit_seconds)
                       ELSE None]
        /\ op' = [name |-> "validate_answer_with_timing", args |-> answer]
        /\ UNCHANGED <<now, time_limit_seconds, start_time, nticks>>

\* TimedChallengeDecorator.validate_answer_with_timing
ValidateAnswerWithTiming(answer) ==
    LET end == LatchedEnd
        time_taken == get_elapsed_time(start_time, end, now)
        timed_out == is_timed_out(start_time, end, now, time_limit_seconds)
        time_remaining == get_remaining_time(start_time, end, now, time_limit_seconds)
        is_correct == IF ~timed_out THEN validate_answer(challenge, answer) ELSE FALSE
    IN  /\ end_time' = end
        /\ answer_submitted' = TRUE
        /\ ret' = [is_correct |-> is_correct,
                   time_taken |-> time_taken,
                   timed_out |-> timed_out,
                   time_remaining |-> time_remaining,
                   time_limit |-> time_limit_seconds,
                   correct_answer |->
                       IF ~is_correct THEN Some(challenge.correct_answer) ELSE None,
                   timeout_message |->
                       IF ~is_correct /\ timed_out THEN Some(time_limit_seconds)
                       ELSE None]
        /\ op' = [name |-> "validate_answer_with_timing", args |-> answer]
        /\ UNCHANGED <<now, time_limit_seconds, start_time, nticks>>

(***************************************************************************)
(* SpecTimed: one timed decorator around an audio challenge for animal 1,  *)
(* its operations called in any order while the clock advances.            *)
(***************************************************************************)
MaxTicks == 5

TimeLimits == {1, 2}

TickSteps == {2, 50, 125, 250}

TimedAnswers == {"Leao", " LEAO ", "Zebra"}

InitTimedSpec ==
    /\ challenge = NewChallenge("audio", 1, "1")
    /\ InitObservers
    /\ InitOptions
    /\ InitDecorators
    /\ InitRequests
    /\ InitFactory
    /\ now = 0
    /\ time_limit_seconds \in TimeLimits
    /\ start_time = None
    /\ end_time = None
    /\ answer_submitted = FALSE
    /\ ret = None
    /\ nticks = 0

NextTimed ==
    \/ \E d \in TickSteps : nticks < MaxTicks /\ Tick(d) /\ UNCHANGED <<observerVars, factoryVars, otherVars>>
    \/ StartTimer /\ UNCHANGED <<observerVars, factoryVars, otherVars>>
    \/ ResetTimer /\ UNCHANGED <<observerVars, factoryVars, otherVars>>
    \/ \E a \in TimedAnswers : ValidateAnswer(a) /\ UNCHANGED <<observerVars, factoryVars, otherVars>>
    \/ \E a \in TimedAnswers : ValidateAnswerWithTiming(a) /\ UNCHANGED <<observerVars, factoryVars, otherVars>>

SpecTimed == InitTimedSpec /\ [][NextTimed]_vars

(***************************************************************************)
(* SpecFactory: the factory's operations called in any order by two        *)
(* callers, with registered, unregistered and unknown type names.          *)
(***************************************************************************)
Callers == {"a", "b"}

FactoryTypeNames == {"audio", "night", "bogus"}

FactoryClasses == {"AudioChallenge", "NightChallenge", "NotAChallenge"}

FactoryAnimals == {1, 3}

InitFactorySpec ==
    /\ challenge = NewChallenge("audio", 1, "1")
    /\ InitObservers
    /\ InitOptions
    /\ InitDecorators
    /\ InitRequests
    /\ InitTimed
    /\ InitFactory

NextFactory ==
    \/ \E c \in Callers, t \in FactoryTypeNames, a \in FactoryAnimals :
          CreateChallengeCall(c, t, a) /\ UNCHANGED <<observerVars, timedVars, otherVars>>
    \/ \E c \in Callers :
          GetAvailableTypes(c) /\ UNCHANGED <<observerVars, timedVars, otherVars>>
    \/ \E c \in Callers, t \in FactoryTypeNames, k \in FactoryClasses :
          RegisterChallengeType(c, t, k) /\ UNCHANGED <<observerVars, timedVars, otherVars>>
    \/ \E c \in Callers, t \in FactoryTypeNames :
          UnregisterChallengeType(c, t) /\ UNCHANGED <<observerVars, timedVars, otherVars>>
    \/ \E c \in Callers, a \in FactoryAnimals :
          CreateChallengeSet(c, a) /\ UNCHANGED <<observerVars, timedVars, otherVars>>

SpecFactory == InitFactorySpec /\ [][NextFactory]_vars

(***************************************************************************)
(* SpecOptions: a challenge of any built-in type for any animal of the     *)
(* data base, asked for its options any number of times.                   *)
(***************************************************************************)
InitOptionsSpec ==
    /\ challenge \in {NewChallenge(t, AnimalIds[i], "1") :
                         t \in BuiltinTypes, i \in 1..Len(AnimalIds)}
    /\ InitObservers
    /\ InitOptions
    /\ InitDecorators
    /\ InitRequests
    /\ InitTimed
    /\ InitFactory

NextOptions ==
    GetOptions /\ UNCHANGED <<observerVars, timedVars, factoryVars, decoratorVars,
                             requestVars>>

SpecOptions == InitOptionsSpec /\ [][NextOptions]_vars

(***************************************************************************)
(* SpecAnalytics: one user completing challenges for animal 1 one after    *)
(* the other, each challenge new and with the analytics observer attached, *)
(* long enough for every level of _calculate_level.  Most challenges are   *)
(* audio challenges; a few are of the type registered at run time.         *)
(***************************************************************************)
MaxCompletions == 50

MaxCustom == 1

AnalyticsAnswers == {"Leao", "Zebra"}

\* the completions counted in the per-type buckets of a record
SumTotalBuiltin(by_type) ==
    by_type["audio"].total + by_type["visual"].total
    + by_type["habitat"].total + by_type["classification"].total

\* how many completions of the run-time type the user's record has counted
CustomCompletions(u) ==
    IF u \notin DOMAIN user_data THEN 0
    ELSE user_data[u].total_challenges
         - SumTotalBuiltin(user_data[u].by_type)

AnalyticsCompleted(user_id, type, answer, time_taken) ==
    LET ch == NewChallenge(type, 1, "1")
    IN  NotifyOn(ch, attach(<<>>, "analytics"), "completed",
                 [user_id |-> user_id, answer |-> answer, time_taken |-> time_taken,
                  is_correct |-> validate_answer(ch, answer)])

InitAnalytics ==
    /\ challenge = NewChallenge("audio", 1, "1")
    /\ InitObservers
    /\ InitOptions
    /\ InitDecorators
    /\ InitRequests
    /\ InitTimed
    /\ InitFactory

NextAnalytics ==
    \/ \E a \in AnalyticsAnswers :
          /\ nnotify < MaxCompletions
          /\ AnalyticsCompleted("u1", "audio", a, 3)
          /\ UNCHANGED <<timedVars, factoryVars, otherVars>>
    \/ \E a \in AnalyticsAnswers :
          /\ nnotify < MaxCompletions
          /\ CustomCompletions("u1") < MaxCustom
          /\ AnalyticsCompleted("u1", CustomType, a, 3)
          /\ UNCHANGED <<timedVars, factoryVars, otherVars>>

SpecAnalytics == InitAnalytics /\ [][NextAnalytics]_vars

(***************************************************************************)
(* SpecAchievements: one user completing audio challenges for animal 1 one *)
(* after the other, each challenge new and with the achievement observer   *)
(* attached, long enough for the 'persistence' achievement.  The caller of *)
(* notify_completed chooses is_correct; every answer takes 7 seconds.      *)
(***************************************************************************)
AchievementCompleted(user_id, type, animal_id, time_taken, is_correct) ==
    NotifyOn(NewChallenge(type, animal_id, "1"), attach(<<>>, "achievement"),
             "completed",
             [user_id |-> user_id, answer |-> "Leao", time_taken |-> time_taken,
              is_correct |-> is_correct])

InitAchievements ==
    /\ challenge = NewChallenge("audio", 1, "1")
    /\ InitObservers
    /\ InitOptions
    /\ InitDecorators
    /\ InitRequests
    /\ InitTimed
    /\ InitFactory

NextAchievements ==
    \E c \in BOOLEAN :
        /\ nnotify < MaxCompletions
        /\ AchievementCompleted("u1", "audio", 1, 7, c)
        /\ UNCHANGED <<timedVars, factoryVars, otherVars>>

SpecAchievements == InitAchievements /\ [][NextAchievements]_vars

(***************************************************************************)
(* SpecStats: the first completions of one user, of several challenge      *)
(* types and with several answer times, each challenge new and with the    *)
(* achievement observer attached.  A time_taken of 0 is what the submit    *)
(* endpoint passes when the request carries none.                          *)
(***************************************************************************)
MaxStats == 4

StatsTypes == {"audio", "habitat", CustomType}

StatsTimes == {0, 3, 7}

NextStats ==
    \E t \in StatsTypes, d \in StatsTimes, c \in BOOLEAN :
        /\ nnotify < MaxStats
        /\ AchievementCompleted("u1", t, 1, d, c)
        /\ UNCHANGED <<timedVars, factoryVars, otherVars>>

SpecStats == InitAchievements /\ [][NextStats]_vars

(***************************************************************************)
(* SpecXp: the first completions of one user, each on a new challenge with *)
(* the level observer attached.  A challenge has the integer difficulty    *)
(* the factory gives it, or was constructed with a named tier; the answer  *)
(* times lie in every band of the speed bonus and on the bands' limits.    *)
(***************************************************************************)
MaxXpNotify == 2

XpTypes == BuiltinTypes \cup {CustomType}

XpDifficulties == {"1", "medium"}

XpTimes == {3, 5, 10, 20}

LevelCompleted(user_id, type, difficulty, time_taken, is_correct) ==
    NotifyOn(NewChallenge(type, 1, difficulty), attach(<<>>, "level"), "completed",
             [user_id |-> user_id, answer |-> "Leao", time_taken |-> time_taken,
              is_correct |-> is_correct])

InitLevel ==
    /\ challenge = NewChallenge("audio", 1, "1")
    /\ InitObservers
    /\ InitOptions
    /\ InitDecorators
    /\ InitRequests
    /\ InitTimed
    /\ InitFactory

NextXp ==
    \/ \E t \in XpTypes, k \in XpDifficulties, d \in XpTimes :
          /\ nnotify < MaxXpNotify
          /\ LevelCompleted("u1", t, k, d, TRUE)
          /\ UNCHANGED <<timedVars, factoryVars, otherVars>>
    \/ \E t \in XpTypes :
          /\ nnotify < MaxXpNotify
          /\ LevelCompleted("u1", t, "1", 3, FALSE)
          /\ UNCHANGED <<timedVars, factoryVars, otherVars>>

SpecXp == InitLevel /\ [][NextXp]_vars

(***************************************************************************)
(* SpecLevel: one user earning XP by completions and by bonus awards, the  *)
(* level observer built with the sink as its collaborator.  The bonus      *)
(* amounts are positive and reach every level and the limit between the    *)
(* first two.                                                              *)
(***************************************************************************)
MaxAwards == 4

MaxLevelNotify == 2

BonusAmounts == {1, 99, 200, 700, 3000}

\* LevelProgressionObserver.award_bonus_xp(user_id, amount, reason)
AwardBonusXp(user_id, amount) ==
    LET r == award_bonus_xp(user_progression,
                            [queue |-> event_queue, sent |-> batches],
                            user_id, amount)
    IN  /\ user_progression' = r.up
        /\ event_queue' = r.sink.queue
        /\ batches' = r.sink.sent
        /\ raised' = FALSE
        /\ op' = [name |-> "award_bonus_xp",
                  args |-> [user_id |-> user_id, amount |-> amount]]
        /\ nawards' = nawards + 1
        /\ UNCHANGED <<challenge, observers, user_data, user_achievements, calls,
                       nnotify>>

NextLevel ==
    \/ \E c \in BOOLEAN :
          /\ nnotify < MaxLevelNotify
          /\ LevelCompleted("u1", "classification", "1", 3, c)
          /\ UNCHANGED <<timedVars, factoryVars, otherVars>>
    \/ \E a \in BonusAmounts :
          /\ nawards < MaxAwards
          /\ AwardBonusXp("u1", a)
          /\ UNCHANGED <<timedVars, factoryVars, otherVars>>

SpecLevel == InitLevel /\ [][NextLevel]_vars

(***************************************************************************)
(* SpecSink: the sink alone.  Events reach it through the notify_* calls   *)
(* of a challenge it is attached to and through direct notify_level_up and *)
(* notify_achievement calls; force_flush may be called between them.  The  *)
(* first events are of any kind, the later ones challenge_started events.  *)
(***************************************************************************)
MaxEvents == 11

MaxVaried == 2

MaxBatches == 2

\* how many events the sink has been given
EventsGiven == Len(event_queue) + Cardinality({<<i, j>> \in (1..Len(batches)) \X (1..max_queue_size) :
                                                  j <= Len(batches[i])})

\* a notify_* call on a new challenge that has the sink attached
SinkNotify(kind, ev) ==
    NotifyOn(NewChallenge("audio", 1, "1"), attach(<<>>, "invenira"), kind, ev)

\* a call of a method of the sink that is not a handler: the sink's new state
SinkCall(name, args, sink) ==
    /\ event_queue' = sink.queue
    /\ batches' = sink.sent
    /\ raised' = FALSE
    /\ op' = [name |-> name, args |-> args]
    /\ UNCHANGED <<challenge, observers, user_data, user_achievements,
                   user_progression, calls, nnotify, nawards>>

NotifyLevelUp(user_id, new_level) ==
    SinkCall("notify_level_up", [user_id |-> user_id, new_level |-> new_level],
             notify_level_up([queue |-> event_queue, sent |-> batches], user_id,
                             new_level,
                             [total_challenges |-> 0, accuracy_rate |-> 0]))

NotifyAchievement(user_id, achievement_id) ==
    SinkCall("notify_achievement",
             [user_id |-> user_id, achievement_id |-> achievement_id],
             notify_achievement([queue |-> event_queue, sent |-> batches], user_id,
                                achievement_id, achievement_id))

ForceFlush ==
    SinkCall("force_flush", <<>>, force_flush([queue |-> event_queue, sent |-> batches]))

NextSink ==
    \/ /\ EventsGiven < MaxEvents
       /\ SinkNotify("started", [user_id |-> "u1"])
       /\ UNCHANGED <<timedVars, factoryVars, otherVars>>
    \/ \E c \in BOOLEAN :
          /\ EventsGiven < MaxVaried
          /\ SinkNotify("completed", [user_id |-> "u1", answer |-> "Leao",
                                      time_taken |-> 3, is_correct |-> c])
          /\ UNCHANGED <<timedVars, factoryVars, otherVars>>
    \/ /\ EventsGiven < MaxVaried
       /\ SinkNotify("skipped", [user_id |-> "u1"])
       /\ UNCHANGED <<timedVars, factoryVars, otherVars>>
    \/ /\ EventsGiven < MaxVaried
       /\ NotifyLevelUp("u1", 2)
       /\ UNCHANGED <<timedVars, factoryVars, otherVars>>
    \/ /\ EventsGiven < MaxVaried
       /\ NotifyAchievement("u1", "first_steps")
       /\ UNCHANGED <<timedVars, factoryVars, otherVars>>
    \/ /\ Len(batches) < MaxBatches
       /\ ForceFlush
       /\ UNCHANGED <<timedVars, factoryVars, otherVars>>

SpecSink == InitLevel /\ [][NextSink]_vars

(***************************************************************************)
(* ChallengeDecorator (decorators/challenge_decorator.py).  The objects    *)
(* created are kept by identity: objects[i] is the i-th object created.    *)
(* A concrete challenge has the attributes Challenge.__init__ and its own  *)
(* constructor assign; a decorator has _challenge and the four attributes  *)
(* ChallengeDecorator.__init__ copies, and no _observers attribute, since  *)
(* that constructor does not call Challenge.__init__.  An attribute never  *)
(* assigned is None here; _observers holds the list when it exists.        *)
(***************************************************************************)
\* a concrete challenge as its constructor leaves it
NewConcreteObject(type, animal_id) ==
    LET ch == NewChallenge(type, animal_id, "1")
    IN  [decorator |-> FALSE, _challenge |-> None, type |-> ch.type,
         animal_id |-> ch.animal_id, difficulty |-> ch.difficulty,
         challenge_id |-> None, correct_answer |-> ch.correct_answer,
         _observers |-> Some(<<>>)]

\* ChallengeDecorator.__init__(challenge), challenge being objects[i]
NewDecoratorObject(objs, i) ==
    [decorator |-> TRUE, _challenge |-> Some(i), type |-> None,
     animal_id |-> objs[i].animal_id, difficulty |-> objs[i].difficulty,
     challenge_id |-> objs[i].challenge_id,
     correct_answer |-> objs[i].correct_answer,
     _observers |-> None]

\* isinstance(objects[i], ChallengeDecorator)
IsDecorator(objs, i) == objs[i].decorator

get_wrapped_challenge(objs, i) == objs[i]._challenge[1]

RECURSIVE BaseFrom(_, _)
\* the loop of get_base_challenge, current being objects[current]
BaseFrom(objs, current) ==
    IF IsDecorator(objs, current)
    THEN BaseFrom(objs, get_wrapped_challenge(objs, current))
    ELSE current

\* variant: get_base_challenge stops at the challenge the decorator wraps
get_base_challenge_one_step(objs, i) == objs[i]._challenge[1]

get_base_challenge(objs, i) == BaseFrom(objs, objs[i]._challenge[1])

RECURSIVE get_challenge_type(_, _)
\* a decorator delegates to the challenge it wraps
get_challenge_type(objs, i) ==
    IF IsDecorator(objs, i) THEN get_challenge_type(objs, get_wrapped_challenge(objs, i))
    ELSE objs[i].type

\* the challenge an observer's handler is given when objects[i] notifies
AsChallenge(objs, i) ==
    [type |-> get_challenge_type(objs, i), animal_id |-> objs[i].animal_id,
     difficulty |-> objs[i].difficulty, correct_answer |-> objs[i].correct_answer]

\* a call on objects[i] that ended without raising and changed only the objects
ObjectCall(name, args, objs) ==
    /\ objects' = objs
    /\ calls' = <<>>
    /\ raised' = FALSE
    /\ op' = [name |-> name, args |-> args]
    /\ UNCHANGED <<challenge, observers, user_data, user_achievements,
                   user_progression, event_queue, batches, nnotify, nawards>>

\* a call on objects[i] that reads self._observers on an object without that
\* attribute: AttributeError, nothing changed
AttributeError(name, args) ==
    /\ raised' = TRUE
    /\ calls' = <<>>
    /\ op' = [name |-> name, args |-> args]
    /\ UNCHANGED <<objects, challenge, observers, user_data, user_achievements,
                   user_progression, event_queue, batches, nnotify, nawards>>

CreateObject(type, animal_id) ==
    ObjectCall("create", [type |-> type, animal_id |-> animal_id],
               Append(objects, NewConcreteObject(type, animal_id)))

\* TimedChallengeDecorator(objects[i])
Decorate(i) ==
    ObjectCall("decorate", [object |-> i],
               Append(objects, NewDecoratorObject(objects, i)))

\* objects[i].attach(o)
AttachTo(i, o) ==
    IF objects[i]._observers = None
    THEN AttributeError("attach", [object |-> i, observer |-> o])
    ELSE ObjectCall("attach", [object |-> i, observer |-> o],
                    [objects EXCEPT ![i]._observers = Some(attach(@[1], o))])

\* objects[i].detach(o)
DetachFrom(i, o) ==
    IF objects[i]._observers = None
    THEN AttributeError("detach", [object |-> i, observer |-> o])
    ELSE ObjectCall("detach", [object |-> i, observer |-> o],
                    [objects EXCEPT ![i]._observers = Some(detach(@[1], o))])

\* objects[i].notify_started / notify_completed / notify_skipped
NotifyObject(i, kind, ev) ==
    IF objects[i]._observers = None
    THEN AttributeError("notify_" \o kind, [object |-> i] @@ ev)
    ELSE LET st == NotifyFrom(kind, objects[i]._observers[1], 1, Stores,
                              AsChallenge(objects, i), ev)
         IN  /\ user_data' = st.ud
             /\ user_achievements' = st.ua
             /\ user_progression' = st.up
             /\ event_queue' = st.sink.queue
             /\ batches' = st.sink.sent
             /\ calls' = st.calls
             /\ raised' = st.raised
             /\ op' = [name |-> "notify_" \o kind, args |-> [object |-> i] @@ ev]
             /\ nnotify' = nnotify + 1
             /\ UNCHANGED <<objects, challenge, observers, nawards>>

(***************************************************************************)
(* SpecDecorators: challenges are created and wrapped in decorators, any   *)
(* object created so far being wrapped again, to any depth.                *)
(***************************************************************************)
MaxObjects == 5

\* the type and animal of the challenges created
DecoratedChallenges == {<<"audio", 1>>, <<"classification", 3>>}

NextDecorators ==
    \/ \E c \in DecoratedChallenges :
          /\ Len(objects) < MaxObjects
          /\ CreateObject(c[1], c[2])
          /\ UNCHANGED <<timedVars, factoryVars, optionVars, requestVars>>
    \/ \E i \in 1..Len(objects) :
          /\ Len(objects) < MaxObjects
          /\ Decorate(i)
          /\ UNCHANGED <<timedVars, factoryVars, optionVars, requestVars>>

SpecDecorators == InitLevel /\ [][NextDecorators]_vars

(***************************************************************************)
(* SpecSubjects: a challenge and the decorators around it used as subjects *)
(* of the observer pattern: the achievement observer is attached to and    *)
(* detached from any of the objects and any of them is asked to notify.    *)
(***************************************************************************)
MaxSubjects == 2

SubjectEvents ==
    {<<"started", [user_id |-> "u1"]>>,
     <<"completed", [user_id |-> "u1", answer |-> "Leao", time_taken |-> 3,
                     is_correct |-> TRUE]>>,
     <<"skipped", [user_id |-> "u1"]>>}

NextSubjects ==
    \/ /\ Len(objects) < MaxSubjects
       /\ CreateObject("audio", 1)
       /\ UNCHANGED <<timedVars, factoryVars, optionVars, requestVars>>
    \/ \E i \in 1..Len(objects) :
          /\ Len(objects) < MaxSubjects
          /\ Decorate(i)
          /\ UNCHANGED <<timedVars, factoryVars, optionVars, requestVars>>
    \/ \E i \in 1..Len(objects) :
          /\ AttachTo(i, "achievement")
          /\ UNCHANGED <<timedVars, factoryVars, optionVars, requestVars>>
    \/ \E i \in 1..Len(objects) :
          /\ DetachFrom(i, "achievement")
          /\ UNCHANGED <<timedVars, factoryVars, optionVars, requestVars>>
    \/ \E i \in 1..Len(objects), e \in SubjectEvents :
          /\ nnotify < MaxNotify
          /\ NotifyObject(i, e[1], e[2])
          /\ UNCHANGED <<timedVars, factoryVars, optionVars, requestVars>>

SpecSubjects == InitLevel /\ [][NextSubjects]_vars

(***************************************************************************)
(* Concurrent submit requests (cognitive_endpoints.py,                     *)
(* submit_cognitive_answer).  App.py starts the Flask server with          *)
(* app.run(...), which handles every request in a thread of its own, and   *)
(* no lock guards the observers' maps.  A request runs notify_completed    *)
(* with the four observers attached, in steps between which the other      *)
(* request may run:                                                        *)
(*   check   "if user_id not in <map>"                                     *)
(*   init    "<map>[user_id] = {...}" when the check found no record       *)
(*   ref     "user = <map>[user_id]": the request keeps the dict object    *)
(*   read / write   the two halves of user['total_challenges'] += 1        *)
(*   rest    the other updates of the handler, in one step                 *)
(* for the analytics, and check, init, ref and one step for the updates    *)
(* for the achievement and level observers; the sink queues its event in   *)
(* one step.  A dict object that another request replaces in the map stays *)
(* with the request that holds it: ref is then 'orphan' and carries it.    *)
(***************************************************************************)
ConcurrentAnswers == {"Leao", "Zebra"}

\* the steps of a request, in program order
RequestSteps ==
    <<"an_check", "an_init", "an_ref", "an_read", "an_write", "an_rest",
      "ach_check", "ach_init", "ach_ref", "ach_update",
      "sink",
      "lvl_check", "lvl_init", "lvl_ref", "lvl_update",
      "done">>

NextStep(pc) ==
    RequestSteps[(CHOOSE i \in 1..Len(RequestSteps) : RequestSteps[i] = pc) + 1]

NoRef == [kind |-> "none", rec |-> <<>>]

LiveRef == [kind |-> "live", rec |-> <<>>]

OrphanRef(rec) == [kind |-> "orphan", rec |-> rec]

\* the challenge both requests are about, and the user
RequestChallenge == NewChallenge("audio", 1, "1")

RequestUser == "u1"

\* a request as it enters notify_completed; before holds the user's completion
\* counts at that time
NewRequest(answer, before) ==
    [pc |-> "an_check", answer |-> answer,
     is_correct |-> validate_answer(RequestChallenge, answer),
     absent |-> FALSE, tmp |-> 0,
     ref |-> [s \in {"an", "ach", "lvl"} |-> NoRef],
     before |-> before, overlapped |-> FALSE]

\* the dict object the request's reference of store s names
Deref(p, s, store) ==
    IF requests[p].ref[s].kind = "orphan" THEN requests[p].ref[s].rec
    ELSE store[RequestUser]

\* the other request is between its first and its last step
OtherRunning(p) ==
    \E q \in DOMAIN requests :
        q # p /\ requests[q].pc \notin {"an_check", "done"}

\* request p moves on; its fields change as given by f
Advance(p, reqs) ==
    [reqs EXCEPT ![p].pc = NextStep(@),
                 ![p].overlapped = @ \/ OtherRunning(p)]

\* "if user_id not in <map>"
CheckStep(p, s, store) ==
    Advance(p, [requests EXCEPT ![p].absent = RequestUser \notin DOMAIN store])

\* "<map>[user_id] = {...}": the new dict replaces the one in the map, which
\* stays with the requests that hold a reference to it
InitStore(p, store, new) ==
    IF requests[p].absent THEN (RequestUser :> new) @@ store ELSE store

InitRequestsAfter(p, s, store) ==
    Advance(p,
        IF requests[p].absent /\ RequestUser \in DOMAIN store
        THEN [q \in DOMAIN requests |->
                 IF q # p /\ requests[q].ref[s].kind = "live"
                 THEN [requests[q] EXCEPT !.ref[s] = OrphanRef(store[RequestUser])]
                 ELSE requests[q]]
        ELSE requests)

\* "user = <map>[user_id]"
RefStep(p, s) == Advance(p, [requests EXCEPT ![p].ref[s] = LiveRef])

\* the store after request p has written rec into the dict it holds
StoreAfterWrite(p, s, store, rec) ==
    IF requests[p].ref[s].kind = "orphan" THEN store
    ELSE [store EXCEPT ![RequestUser] = rec]

\* the requests after request p has written rec into the dict it holds
RequestsAfterWrite(p, s, rec) ==
    Advance(p, IF requests[p].ref[s].kind = "orphan"
               THEN [requests EXCEPT ![p].ref[s] = OrphanRef(rec)]
               ELSE requests)

\* record_response after "user['total_challenges'] += 1"
record_response_rest(user, ch, is_correct) ==
    LET u1 == [user EXCEPT !.correct_answers = IF is_correct THEN @ + 1 ELSE @,
                           !.incorrect_answers = IF is_correct THEN @ ELSE @ + 1]
        u2 == [u1 EXCEPT !.accuracy_rate =
                  Percentage(u1.correct_answers, u1.total_challenges)]
        ts0 == u2.by_type[ch.type]
        ts1 == [ts0 EXCEPT !.total = @ + 1,
                           !.correct = IF is_correct THEN @ + 1 ELSE @]
        ts2 == [ts1 EXCEPT !.accuracy = Percentage(ts1.correct, ts1.total)]
        u3 == [u2 EXCEPT !.by_type[ch.type] = ts2]
        u4 == IF is_correct /\ ~InSeq(ch.animal_id, u3.animals_discovered)
              THEN [u3 EXCEPT !.animals_discovered = Append(@, ch.animal_id)]
              ELSE u3
    IN  [u4 EXCEPT !.current_level = _calculate_level(u4)]

\* AchievementObserver.on_challenge_completed after _initialize_user: the
\* statistics are updated in the dict the request holds ("stats = ..."), while
\* _check_achievements(user_id) looks the user up in the map again
AchUpdated(p, answer, is_correct) ==
    ach_on_challenge_completed(
        (RequestUser :> Deref(p, "ach", user_achievements)), RequestUser,
        RequestChallenge, answer, 3, is_correct)[RequestUser]

AchStoreAfterUpdate(p, answer, is_correct) ==
    IF requests[p].ref["ach"].kind = "orphan"
    THEN [user_achievements EXCEPT ![RequestUser] = _check_achievements(@)]
    ELSE [user_achievements EXCEPT ![RequestUser] = AchUpdated(p, answer, is_correct)]

AchRequestsAfterUpdate(p, answer, is_correct) ==
    Advance(p,
        IF requests[p].ref["ach"].kind = "orphan"
        THEN [requests EXCEPT ![p].ref["ach"].rec.stats =
                  AchUpdated(p, answer, is_correct).stats]
        ELSE requests)

\* LevelProgressionObserver.on_challenge_completed after _initialize_user: the
\* XP is added in the dict the request holds ("user = ..."), while
\* _check_level_up(user_id) and _handle_level_up(user_id, ...) look the user up
\* in the map again
LvlAfterUpdate(p, answer, is_correct) ==
    LET sink == [queue |-> event_queue, sent |-> batches]
        held == Deref(p, "lvl", user_progression)
        xp == _calculate_xp(RequestChallenge, is_correct, 3)
    IN  IF requests[p].ref["lvl"].kind = "orphan"
        THEN LET u1 == [held EXCEPT !.current_xp = @ + xp,
                                    !.total_xp_earned = @ + xp,
                                    !.challenges_completed = @ + 1]
                 live == user_progression[RequestUser]
                 new_level == _check_level_up(live)
                 live2 == [live EXCEPT !.level = new_level]
                 h == IF new_level > held.level
                      THEN _handle_level_up(live2, sink, RequestUser, held.level,
                                            new_level)
                      ELSE [user |-> live2, sink |-> sink]
             IN  [up |-> [user_progression EXCEPT ![RequestUser] = h.user],
                  sink |-> h.sink,
                  requests |-> Advance(p, [requests EXCEPT ![p].ref["lvl"].rec = u1])]
        ELSE LET res == lvl_on_challenge_completed(user_progression, sink,
                            RequestUser, RequestChallenge, answer, 3, is_correct)
             IN  [up |-> res.up, sink |-> res.sink,
                  requests |-> Advance(p, requests)]

\* one step of request p
RequestStep(p) ==
    LET r == requests[p]
        ch == RequestChallenge
        u == RequestUser
    IN
    /\ r.pc # "done"
    /\ op' = [name |-> "step", args |-> [request |-> p, pc |-> r.pc]]
    /\ UNCHANGED <<challenge, observers, calls, raised, nnotify, nawards>>
    /\ CASE r.pc = "an_check" ->
              /\ requests' = CheckStep(p, "an", user_data)
              /\ UNCHANGED <<user_data, user_achievements, user_progression,
                             event_queue, batches>>
         [] r.pc = "an_init" ->
              /\ user_data' = InitStore(p, user_data, NewCognitiveRecord)
              /\ requests' = InitRequestsAfter(p, "an", user_data)
              /\ UNCHANGED <<user_achievements, user_progression, event_queue,
                             batches>>
         [] r.pc \in {"an_ref", "ach_ref", "lvl_ref"} ->
              /\ requests' = RefStep(p, CASE r.pc = "an_ref" -> "an"
                                          [] r.pc = "ach_ref" -> "ach"
                                          [] r.pc = "lvl_ref" -> "lvl")
              /\ UNCHANGED <<user_data, user_achievements, user_progression,
                             event_queue, batches>>
         [] r.pc = "an_read" ->
              /\ requests' = Advance(p, [requests EXCEPT ![p].tmp =
                                 Deref(p, "an", user_data).total_challenges])
              /\ UNCHANGED <<user_data, user_achievements, user_progression,
                             event_queue, batches>>
         [] r.pc = "an_write" ->
              LET rec == [Deref(p, "an", user_data) EXCEPT
                             !.total_challenges = r.tmp + 1]
              IN  /\ user_data' = StoreAfterWrite(p, "an", user_data, rec)
                  /\ requests' = RequestsAfterWrite(p, "an", rec)
                  /\ UNCHANGED <<user_achievements, user_progression, event_queue,
                                 batches>>
         [] r.pc = "an_rest" ->
              LET rec == record_response_rest(Deref(p, "an", user_data), ch,
                                              r.is_correct)
              IN  /\ user_data' = StoreAfterWrite(p, "an", user_data, rec)
                  /\ requests' = RequestsAfterWrite(p, "an", rec)
                  /\ UNCHANGED <<user_achievements, user_progression, event_queue,
                                 batches>>
         [] r.pc = "ach_check" ->
              /\ requests' = CheckStep(p, "ach", user_achievements)
              /\ UNCHANGED <<user_data, user_achievements, user_progression,
                             event_queue, batches>>
         [] r.pc = "ach_init" ->
              /\ user_achievements' = InitStore(p, user_achievements,
                                                NewAchievementRecord)
              /\ requests' = InitRequestsAfter(p, "ach", user_achievements)
              /\ UNCHANGED <<user_data, user_progression, event_queue, batches>>
         [] r.pc = "ach_update" ->
              /\ user_achievements' = AchStoreAfterUpdate(p, r.answer, r.is_correct)
              /\ requests' = AchRequestsAfterUpdate(p, r.answer, r.is_correct)
              /\ UNCHANGED <<user_data, user_progression, event_queue, batches>>
         [] r.pc = "sink" ->
              LET sink == _queue_event([queue |-> event_queue, sent |-> batches],
                              CompletedEvent(u, ch, r.answer, 3, r.is_correct))
              IN  /\ event_queue' = sink.queue
                  /\ batches' = sink.sent
                  /\ requests' = Advance(p, requests)
                  /\ UNCHANGED <<user_data, user_achievements, user_progression>>
         [] r.pc = "lvl_check" ->
              /\ requests' = CheckStep(p, "lvl", user_progression)
              /\ UNCHANGED <<user_data, user_achievements, user_progression,
                             event_queue, batches>>
         [] r.pc = "lvl_init" ->
              /\ user_progression' = InitStore(p, user_progression,
                                               NewProgressionRecord)
              /\ requests' = InitRequestsAfter(p, "lvl", user_progression)
              /\ UNCHANGED <<user_data, user_achievements, event_queue, batches>>
         [] r.pc = "lvl_update" ->
              LET res == LvlAfterUpdate(p, r.answer, r.is_correct)
              IN  /\ user_progression' = res.up
                  /\ requests' = res.requests
                  /\ event_queue' = res.sink.queue
                  /\ batches' = res.sink.sent
                  /\ UNCHANGED <<user_data, user_achievements>>

\* the stores before the two requests: empty, or as one earlier request of the
\* user left them
EmptyStores ==
    [ud |-> <<>>, ua |-> <<>>, up |-> <<>>, sink |-> [queue |-> <<>>, sent |-> <<>>],
     calls |-> <<>>, raised |-> FALSE]

StoresAfterOne(answer) ==
    NotifyFrom("completed", EndpointObservers, 1, EmptyStores, RequestChallenge,
               [user_id |-> RequestUser, answer |-> answer, time_taken |-> 3,
                is_correct |-> validate_answer(RequestChallenge, answer)])

InitConcurrent ==
    /\ challenge = RequestChallenge
    /\ observers = EndpointObservers
    /\ calls = <<>>
    /\ raised = FALSE
    /\ nnotify = 0
    /\ nawards = 0
    /\ op = [name |-> "init", args |-> <<>>]
    /\ InitOptions
    /\ InitDecorators
    /\ InitTimed
    /\ InitFactory
    /\ \E st \in {EmptyStores} \cup {StoresAfterOne(a) : a \in ConcurrentAnswers} :
          /\ user_data = st.ud
          /\ user_achievements = st.ua
          /\ user_progression = st.up
          /\ event_queue = st.sink.queue
          /\ batches = st.sink.sent
          /\ \E a1, a2 \in ConcurrentAnswers :
                LET before == IF RequestUser \in DOMAIN st.ud THEN 1 ELSE 0
                IN  requests = <<NewRequest(a1, before), NewRequest(a2, before)>>

NextConcurrent ==
    \E p \in DOMAIN requests :
        RequestStep(p) /\ UNCHANGED <<timedVars, factoryVars, optionVars, decoratorVars>>

SpecConcurrent == InitConcurrent /\ [][NextConcurrent]_vars

(***************************************************************************)
(* SpecPeriods: completions of challenges for a nocturnal animal (the owl, *)
(* id 3) by user u1 and for a diurnal animal (the lion, id 1) by user u2,  *)
(* each challenge new and with the achievement observer attached, so that  *)
(* a user's total_completed is the number of challenges they completed    *)
(* for animals of that period.                                             *)
(***************************************************************************)
\* ANIMALS_DB: the 'period' key of an animal
AnimalPeriod(animal_id) ==
    CASE animal_id = 3 -> "noturno"
      [] animal_id \in {1, 2, 4, 5} -> "diurno"

MaxPeriodCompletions == 6

PeriodUsers == {<<"u1", 3>>, <<"u2", 1>>}

NextPeriods ==
    \E ua \in PeriodUsers, c \in BOOLEAN :
        /\ nnotify < MaxPeriodCompletions
        /\ AchievementCompleted(ua[1], "audio", ua[2], 7, c)
        /\ UNCHANGED <<timedVars, factoryVars, otherVars>>

SpecPeriods == InitAchievements /\ [][NextPeriods]_vars

(***************************************************************************)
(* SpecOrder: submit and start requests of one user, each on a new         *)
(* classification challenge with the four observers attached in the        *)
(* endpoints' order, and force_flush calls between them.  A correct answer *)
(* in 3 seconds earns 25 XP, so the fourth correct completion is a         *)
(* level-up; the first events are of any kind, the later ones correct      *)
(* completions, enough of them to fill the queue.                          *)
(***************************************************************************)
MaxOrderNotify == 10

NextOrder ==
    \/ /\ nnotify < MaxOrderNotify
       /\ RequestCompleted("u1", "classification", 1, "Carnivoro", 3, TRUE)
       /\ UNCHANGED <<timedVars, factoryVars, otherVars>>
    \/ /\ nnotify < MaxVaried
       /\ RequestCompleted("u1", "classification", 1, "Zebra", 3, FALSE)
       /\ UNCHANGED <<timedVars, factoryVars, otherVars>>
    \/ /\ nnotify < MaxVaried
       /\ RequestStarted("u1", "classification", 1)
       /\ UNCHANGED <<timedVars, factoryVars, otherVars>>
    \/ /\ Len(batches) < MaxBatches
       /\ ForceFlush
       /\ UNCHANGED <<timedVars, factoryVars, otherVars>>

SpecOrder == InitLevel /\ [][NextOrder]_vars

(***************************************************************************)
(* Claims about the observer dispatch.                                     *)
(***************************************************************************)
NotifyNames == {"notify_started", "notify_completed", "notify_skipped"}

\* C1: when a handler raises during notify_completed, every attached observer is
\* still called for that event (a failure in one observer does not block the
\* others).
C1_FailureDoesNotBlockOthers ==
    (op.name = "notify_completed" /\ raised) =>
        \A i \in 1..Len(observers) : InSeq(observers[i], calls)

\* C2: with the analytics, achievement and level observers attached to every
\* challenge, after every notify call the three stores hold the same users and
\* count the same number of completions for each of them.
C2_CountsAgree ==
    /\ DOMAIN user_data = DOMAIN user_achievements
    /\ DOMAIN user_data = DOMAIN user_progression
    /\ \A u \in DOMAIN user_data :
          /\ user_data[u].total_challenges = user_achievements[u].stats.total_completed
          /\ user_data[u].total_challenges = user_progression[u].challenges_completed

\* a user with two completions, one counted correct by the achievements and one not
C2_Witness ==
    \E u \in DOMAIN user_data :
        /\ user_data[u].total_challenges = 2
        /\ user_achievements[u].stats.total_correct = 1
        /\ user_progression[u].challenges_completed = 2

\* C3: the analytics observer counts a completion as correct exactly when the
\* event's is_correct flag is true: for every user its correct_answers equals the
\* achievement observer's total_correct.
C3_CorrectCountsAgree ==
    \A u \in DOMAIN user_data \cap DOMAIN user_achievements :
        user_data[u].correct_answers = user_achievements[u].stats.total_correct

\* C4: every notify_* call calls the handler of every attached observer exactly
\* once, in attachment order.
C4_EveryObserverOnceInOrder ==
    op.name \in NotifyNames => calls = observers

NoDuplicates(s) == \A i, j \in 1..Len(s) : s[i] = s[j] => i = j

\* C5: the observer list never holds an observer twice; attaching an attached
\* observer and detaching one that is not attached leave the list as it is;
\* attaching a new observer appends it and detaching an attached one removes
\* just that one, keeping the order of the others.
C5_AttachIdempotent ==
    /\ [](NoDuplicates(observers))
    /\ [][/\ op'.name = "attach" =>
                IF InSeq(op'.args, observers)
                THEN observers' = observers
                ELSE observers' = Append(observers, op'.args)
          /\ op'.name = "detach" =>
                IF InSeq(op'.args, observers)
                THEN /\ ~InSeq(op'.args, observers')
                     /\ Len(observers') = Len(observers) - 1
                     /\ \A i, j \in 1..Len(observers) :
                           (i < j /\ observers[i] # op'.args /\ observers[j] # op'.args)
                           => \E k, l \in 1..Len(observers') :
                                 k < l /\ observers'[k] = observers[i]
                                       /\ observers'[l] = observers[j]
                ELSE observers' = observers]_vars

\* the last call attached the observer that stands first in a list of three: it
\* was attached already
C5_Witness ==
    /\ op.name = "attach"
    /\ Len(observers) = 3
    /\ op.args = observers[1]

(***************************************************************************)
(* Claims about the timed decorator.                                       *)
(***************************************************************************)
ValidateNames == {"validate_answer", "validate_answer_with_timing"}

LimitCs == time_limit_seconds * CsPerSecond

\* C6: the submission time is latched once per timer run: the first validate call
\* sets _end_time and the latch, later calls leave _end_time as it is, the elapsed
\* time is fixed from then on while the clock advances, and the latch is set
\* exactly when _end_time is.
C6_LatchedOnce ==
    /\ [](answer_submitted <=> end_time # None)
    /\ [][/\ op'.name \in ValidateNames =>
                /\ answer_submitted'
                /\ end_time' = IF answer_submitted THEN end_time ELSE Some(now)
          /\ (answer_submitted /\ op'.name \notin {"start_timer", "reset_timer"}) =>
                /\ end_time' = end_time
                /\ Elapsed' = Elapsed
          /\ op'.name = "validate_answer_with_timing" =>
                ret'.time_taken = Elapsed']_vars

\* a validate call made after the clock moved on from the latched submission
C6_Witness ==
    /\ op.name \in ValidateNames
    /\ start_time # None
    /\ end_time # None
    /\ end_time[1] < now
    /\ Elapsed > 0

C8_StartTimerResets ==
    /\ []((start_time # None /\ ~answer_submitted) =>
             Elapsed = Round2(now - start_time[1]))
    /\ [][/\ op'.name = "start_timer" =>
                /\ ~answer_submitted'
                /\ end_time' = None
                /\ start_time' = Some(now')
                /\ Elapsed' = 0
          /\ (op.name = "start_timer" /\ op'.name \in ValidateNames) =>
                /\ end_time' = Some(now')
                /\ answer_submitted']_vars

\* a timer started again, later than time 0, and an answer latched on that run
C8_Witness ==
    /\ op.name \in ValidateNames
    /\ start_time # None
    /\ start_time[1] > 0
    /\ end_time = Some(now)
    /\ now > start_time[1]

PressureOfPercent(remaining, limit) ==
    IF remaining * 100 > 50 * limit * CsPerSecond THEN "low"
    ELSE IF remaining * 100 > 25 * limit * CsPerSecond THEN "medium"
    ELSE IF remaining * 100 > 10 * limit * CsPerSecond THEN "high"
    ELSE "critical"

\* C9: the derived values agree: the remaining time is between 0 and the limit;
\* the decorator is timed out exactly when the elapsed time exceeds the limit, and
\* then nothing remains and the pressure is critical; a timer that is not started
\* has elapsed 0, is not timed out and has pressure none; a started timer has the
\* pressure its percentage of remaining time gives.
C9_DerivedConsistent ==
    /\ Remaining >= 0
    /\ Remaining <= LimitCs
    /\ TimedOut <=> Elapsed > LimitCs
    /\ TimedOut => (Remaining = 0 /\ Pressure = "critical")
    /\ start_time = None => (Elapsed = 0 /\ ~TimedOut /\ Pressure = "none")
    /\ start_time # None =>
          /\ Remaining = Max(0, LimitCs - Elapsed)
          /\ Pressure = PressureOfPercent(Remaining, time_limit_seconds)

\* a timer past its limit
C9_Witness ==
    /\ TimedOut
    /\ Elapsed > LimitCs
    /\ Remaining = 0
    /\ Pressure = "critical"

\* C10: as the clock advances and validate calls are made, the elapsed time
\* never decreases, and it is never negative.
C10_ElapsedMonotone ==
    /\ [](Elapsed >= 0)
    /\ [][op'.name \in ValidateNames \cup {"tick"} => Elapsed' >= Elapsed]_vars

\* the clock advanced on a running timer
C10_Witness ==
    /\ op.name = "tick"
    /\ start_time # None
    /\ ~answer_submitted
    /\ Elapsed > 0

\* C11: the record validate_answer_with_timing returns has is_correct false when
\* timed_out is true, holds correct_answer exactly when is_correct is false and
\* timeout_message exactly when timed_out is true, and its time_taken and
\* time_remaining add up to the time limit when the timer was started and the
\* time is not up.
C11_TimingRecord ==
    op.name = "validate_answer_with_timing" =>
        /\ ret.timed_out => ~ret.is_correct
        /\ ret.correct_answer # None <=> ~ret.is_correct
        /\ ret.timeout_message # None <=> ret.timed_out
        /\ ret.timed_out <=> (start_time # None /\ ret.time_taken > LimitCs)
        /\ (start_time # None /\ ~ret.timed_out) =>
              ret.time_taken + ret.time_remaining = LimitCs

\* the right answer given after the time was up: reported incorrect, with the
\* correct answer and the timeout message
C11_Witness ==
    /\ op.name = "validate_answer_with_timing"
    /\ validate_answer(challenge, op.args)
    /\ ret.timed_out
    /\ ~ret.is_correct
    /\ ret.correct_answer # None
    /\ ret.timeout_message # None

(***************************************************************************)
(* Claims about the factory.                                               *)
(***************************************************************************)
\* the exception create_challenge raises for a type that is not registered
UnknownChallengeType == "ValueError"

\* the exception register_challenge_type raises for a registered name
DuplicateType == "ValueError"

\* C12: create_challenge with a type name that is not registered raises the
\* unknown-type error, its message lists exactly the names registered at that
\* moment, in registry order, and the registry is unchanged; with a registered
\* name it returns one instance of the class registered under that name.
C12_CreateUnknownType ==
    [][op'.name = "create_challenge" =>
          /\ registry' = registry
          /\ IF \E i \in 1..Len(registry) : registry[i].name = op'.args.type
             THEN /\ fret'.raised = "none"
                  /\ Len(fret'.value) = 1
                  /\ \E i \in 1..Len(registry) :
                        /\ registry[i].name = op'.args.type
                        /\ fret'.value[1].class = registry[i].class
                  /\ fret'.value[1].challenge.animal_id = op'.args.animal_id
             ELSE /\ fret'.raised = UnknownChallengeType
                  /\ fret'.value = <<>>
                  /\ Len(fret'.listed) = Len(registry)
                  /\ \A i \in 1..Len(registry) :
                        fret'.listed[i] = registry[i].name]_vars

\* create_challenge for an unknown name after audio was unregistered, night
\* registered and audio registered again: the message lists the five names in
\* the new order
C12_Witness ==
    /\ op.name = "create_challenge"
    /\ op.args.type = "bogus"
    /\ fret.raised = "ValueError"
    /\ fret.listed = <<"visual", "habitat", "classification", "night", "audio">>

\* C13: register_challenge_type with a name that is registered raises (the
\* duplicate error when the class is a Challenge class) and leaves the names,
\* their classes and their order as they were; the registry never holds a name
\* twice.
C13_RegisterDuplicate ==
    /\ [](\A i, j \in 1..Len(registry) :
             registry[i].name = registry[j].name => i = j)
    /\ [][(/\ op'.name = "register_challenge_type"
           /\ \E i \in 1..Len(registry) : registry[i].name = op'.args.type) =>
              /\ registry' = registry
              /\ fret'.raised # "none"
              /\ IsChallengeSubclass(op'.args.class) =>
                    fret'.raised = DuplicateType]_vars

\* register_challenge_type('audio', NightChallenge) raised and audio still is
\* AudioChallenge
C13_Witness ==
    /\ op.name = "register_challenge_type"
    /\ op.args.type = "audio"
    /\ op.args.class = "NightChallenge"
    /\ fret.raised = "ValueError"
    /\ \E i \in 1..Len(registry) :
          registry[i] = [name |-> "audio", class |-> "AudioChallenge"]

\* C14: unregister_challenge_type of a name that is not registered raises the
\* same error create_challenge raises for an unknown type.
C14_UnregisterUnknownType ==
    (op.name = "unregister_challenge_type" /\ fret.raised # "none") =>
        fret.raised = UnknownChallengeType

\* C15: the registry is shared by all callers: create_challenge_set returns one
\* challenge per registered type, in registry order, and get_available_types
\* the registered names in that order, whoever calls; a successful register
\* appends the name and a successful unregister removes just that name, so the
\* change is seen by every later call.
C15_RegistryProcessWide ==
    [][/\ op'.name = "create_challenge_set" =>
             /\ registry' = registry
             /\ fret'.raised = "none"
             /\ Len(fret'.value) = Len(registry)
             /\ \A i \in 1..Len(registry) :
                   /\ fret'.value[i].class = registry[i].class
                   /\ fret'.value[i].challenge.animal_id = op'.args.animal_id
       /\ op'.name = "get_available_types" =>
             /\ registry' = registry
             /\ Len(fret'.types) = Len(registry)
             /\ \A i \in 1..Len(registry) : fret'.types[i] = registry[i].name
       /\ (op'.name = "register_challenge_type" /\ fret'.raised = "none") =>
             registry' = Append(registry, [name |-> op'.args.type,
                                           class |-> op'.args.class])
       /\ (op'.name = "unregister_challenge_type" /\ fret'.raised = "none") =>
             /\ Len(registry') = Len(registry) - 1
             /\ \A i \in 1..Len(registry') : registry'[i].name # op'.args.type
             /\ \A i \in 1..Len(registry) :
                   registry[i].name # op'.args.type =>
                      \E j \in 1..Len(registry') : registry'[j] = registry[i]]_vars

\* caller b gets the set for a registry without audio and with night at the end
C15_Witness ==
    /\ op.name = "create_challenge_set"
    /\ op.args.caller = "b"
    /\ Len(fret.value) = 4
    /\ fret.value[1].class = "VisualChallenge"
    /\ fret.value[4].class = "NightChallenge"

(***************************************************************************)
(* Claims about the challenge variants.                                    *)
(***************************************************************************)
\* C16: every get_options call returns a list of 4 options that holds the
\* challenge's correct_answer exactly once.
C16_FourOptionsOneCorrect ==
    op.name = "get_options" =>
        /\ Len(options) = 4
        /\ Cardinality({i \in 1..Len(options) : options[i] = challenge.correct_answer}) = 1

(***************************************************************************)
(* Claims about the analytics and the achievements.                        *)
(***************************************************************************)
RECURSIVE SumTotal(_, _)
SumTotal(by_type, types) ==
    IF types = {} THEN 0
    ELSE LET t == CHOOSE x \in types : TRUE
         IN  by_type[t].total + SumTotal(by_type, types \ {t})

RECURSIVE SumCorrect(_, _)
SumCorrect(by_type, types) ==
    IF types = {} THEN 0
    ELSE LET t == CHOOSE x \in types : TRUE
         IN  by_type[t].correct + SumCorrect(by_type, types \ {t})

RateOf(correct, total) == IF total = 0 THEN 0 ELSE (correct * 10000) \div total

\* C17: every user's analytics record is consistent in every reachable state:
\* total_challenges = correct_answers + incorrect_answers, the per-type totals
\* add up to total_challenges and the per-type correct counts to
\* correct_answers, accuracy_rate is correct/total*100 (0 for no completions)
\* and every per-type accuracy is that type's correct/total*100.
C17_AnalyticsRecordConsistent ==
    \A u \in DOMAIN user_data :
        LET r == user_data[u]
        IN  /\ r.total_challenges = r.correct_answers + r.incorrect_answers
            /\ SumTotal(r.by_type, DOMAIN r.by_type) = r.total_challenges
            /\ SumCorrect(r.by_type, DOMAIN r.by_type) = r.correct_answers
            /\ r.accuracy_rate = RateOf(r.correct_answers, r.total_challenges)
            /\ \A t \in DOMAIN r.by_type :
                  r.by_type[t].accuracy = RateOf(r.by_type[t].correct, r.by_type[t].total)

\* C18: after every completion the user's current_level is the result of the
\* rule applied in order to the updated total and accuracy: total < 5 gives 1,
\* else total < 15 and accuracy >= 60 gives 2, else total < 30 and accuracy >= 70
\* gives 3, else total < 50 and accuracy >= 80 gives 4, else accuracy >= 85
\* gives 5, and otherwise the level the user had before.
C18_LevelRule ==
    [][op'.name = "notify_completed" =>
          LET u == op'.args.user_id
              before == IF u \in DOMAIN user_data THEN user_data[u].current_level
                        ELSE 1
              total == user_data'[u].total_challenges
              accuracy == user_data'[u].accuracy_rate
          IN  user_data'[u].current_level =
                 IF total < 5 THEN 1
                 ELSE IF total < 15 /\ accuracy >= 60 * 100 THEN 2
                 ELSE IF total < 30 /\ accuracy >= 70 * 100 THEN 3
                 ELSE IF total < 50 /\ accuracy >= 80 * 100 THEN 4
                 ELSE IF accuracy >= 85 * 100 THEN 5
                 ELSE before]_vars

\* C19: the animals a user has discovered are the same in the analytics record
\* and in the achievement statistics; the analytics list holds no id twice, and
\* neither collection is larger than the user's count of correct completions.
C19_DiscoveredAnimals ==
    \A u \in DOMAIN user_data \cap DOMAIN user_achievements :
        LET discovered == user_data[u].animals_discovered
            stats == user_achievements[u].stats
        IN  /\ \A i, j \in 1..Len(discovered) : discovered[i] = discovered[j] => i = j
            /\ Len(discovered) <= user_data[u].correct_answers
            /\ Cardinality(stats.animals_discovered) <= stats.total_correct
            /\ {discovered[i] : i \in 1..Len(discovered)} = stats.animals_discovered

FirstStepsUnlocked(ua, u) == u \in DOMAIN ua /\ "first_steps" \in ua[u].unlocked

\* C20: first_steps is locked for a user until the achievement observer's first
\* on_challenge_completed call for that user and is unlocked by that call,
\* correct answer or not; no other call, on_challenge_started included, unlocks
\* it.
C20_FirstSteps ==
    /\ [](\A u \in DOMAIN user_achievements :
             "first_steps" \in user_achievements[u].unlocked
             <=> user_achievements[u].stats.total_completed >= 1)
    /\ [][/\ (op'.name = "notify_completed" /\ InSeq("achievement", calls')) =>
                FirstStepsUnlocked(user_achievements', op'.args.user_id)
          /\ \A u \in SpecUsers :
                (~FirstStepsUnlocked(user_achievements, u)
                 /\ FirstStepsUnlocked(user_achievements', u)) =>
                   /\ op'.name = "notify_completed"
                   /\ op'.args.user_id = u
                   /\ InSeq("achievement", calls')]_vars

\* the user's first completion, an incorrect one and after a started event, has
\* unlocked first_steps
C20_Witness ==
    /\ op.name = "notify_completed"
    /\ ~op.args.is_correct
    /\ InSeq("achievement", calls)
    /\ nnotify = 2
    /\ FirstStepsUnlocked(user_achievements, op.args.user_id)
    /\ user_achievements[op.args.user_id].stats.total_completed = 1
    /\ user_achievements[op.args.user_id].stats.total_correct = 0

(***************************************************************************)
(* Claims about the achievements over a long run of completions.           *)
(***************************************************************************)
\* the achievement record of the one user of SpecAchievements, before and after
\* a step
AchStats == IF "u1" \in DOMAIN user_achievements
            THEN user_achievements["u1"].stats ELSE NewAchievementRecord.stats

AchUnlocked == IF "u1" \in DOMAIN user_achievements
               THEN user_achievements["u1"].unlocked ELSE {}

AchStatsAfter == user_achievements'["u1"].stats

AchUnlockedAfter == user_achievements'["u1"].unlocked

\* the run of consecutive correct answers the completion of this step ends with
RunAfter == IF op'.args.is_correct THEN AchStats.current_streak + 1 ELSE 0

C21_StreakStep ==
    op'.name = "notify_completed" =>
        /\ ("perfect_streak" \in AchUnlockedAfter \ AchUnlocked)
               <=> ("perfect_streak" \notin AchUnlocked /\ RunAfter = 5)
        /\ ("persistence" \in AchUnlockedAfter \ AchUnlocked)
               <=> AchStatsAfter.total_completed = 50
        /\ AchStatsAfter.total_completed = AchStats.total_completed + 1

C21_Locked ==
    /\ "perfect_streak" \notin AchUnlocked => AchStats.current_streak < 5
    /\ "persistence" \in AchUnlocked <=> AchStats.total_completed >= 50

\* C21: 'perfect_streak' is unlocked by exactly the completion at which the run
\* of consecutive correct answers first reaches 5, an incorrect answer starting
\* the run again from 0; 'persistence' is locked during the first 49 completions
\* and is unlocked by the 50th.
C21_StreakAndPersistence == [][C21_StreakStep]_vars /\ []C21_Locked

\* a user who answered wrongly, later reached a run of 5, and completed 50
C21_Witness ==
    /\ {"perfect_streak", "persistence"} \subseteq AchUnlocked
    /\ AchStats.total_completed = 50
    /\ AchStats.total_correct = 5
    /\ AchStats.current_streak = 5

AchHistory == IF "u1" \in DOMAIN user_achievements
              THEN user_achievements["u1"].unlock_history ELSE <<>>

AchHistoryAfter == user_achievements'["u1"].unlock_history

\* the position of an achievement id in the registry ACHIEVEMENTS
RegistryIndex(id) == CHOOSE i \in 1..Len(AchievementOrder) : AchievementOrder[i] = id

C22_LoggedOnce ==
    /\ \A i, j \in 1..Len(AchHistory) : AchHistory[i] = AchHistory[j] => i = j
    /\ {AchHistory[i] : i \in 1..Len(AchHistory)} = AchUnlocked

C22_UnlockStep ==
    op'.name = "notify_completed" =>
        /\ AchUnlocked \subseteq AchUnlockedAfter
        /\ Len(AchHistoryAfter) >= Len(AchHistory)
        /\ SubSeq(AchHistoryAfter, 1, Len(AchHistory)) = AchHistory
        /\ \A i, j \in (Len(AchHistory) + 1)..Len(AchHistoryAfter) :
              i < j => RegistryIndex(AchHistoryAfter[i]) < RegistryIndex(AchHistoryAfter[j])

\* C22: an unlocked achievement stays unlocked and is logged once: no completion
\* removes an id from the unlocked set, the unlock history holds every id at most
\* once, its ids are exactly the unlocked set, earlier entries are kept, and the
\* ids one completion unlocks are appended in the order of the registry.
C22_UnlocksPermanent == []C22_LoggedOnce /\ [][C22_UnlockStep]_vars

\* one completion has unlocked two achievements and later ones two more
C22_Witness ==
    /\ Len(AchHistory) >= 4
    /\ \E i \in 1..(Len(AchHistory) - 1) :
          /\ AchHistory[i] = "audio_expert"
          /\ AchHistory[i + 1] = "perfectionist"
    /\ AchHistory[Len(AchHistory)] = "persistence"

RECURSIVE SumCounts(_, _)
\* the sum of the per-type counters over the types in ts
SumCounts(type_count, ts) ==
    IF ts = {} THEN 0
    ELSE LET t == CHOOSE x \in ts : TRUE
         IN  type_count[t] + SumCounts(type_count, ts \ {t})

C23_StatsStep ==
    op'.name = "notify_completed" =>
        LET ev == op'.args
        IN  /\ AchStatsAfter.current_streak =
                  IF ev.is_correct THEN AchStats.current_streak + 1 ELSE 0
            /\ AchStatsAfter.fastest_time =
                  IF ~ev.is_correct THEN AchStats.fastest_time
                  ELSE IF AchStats.fastest_time = None THEN Some(ev.time_taken)
                  ELSE Some(Min(ev.time_taken, AchStats.fastest_time[1]))

C23_StatsOrdered ==
    /\ SumCounts(AchStats.type_count, DOMAIN AchStats.type_count)
           = AchStats.total_completed
    /\ AchStats.current_streak <= AchStats.total_correct
    /\ AchStats.total_correct <= AchStats.total_completed
    /\ AchStats.fastest_time = None <=> AchStats.total_correct = 0

\* C23: the achievement statistics follow the completions: the streak is 0 after
\* an incorrect completion and one more after a correct one; fastest_time is the
\* least time_taken of the correct completions and unset while there is none;
\* the per-type counters add up to total_completed; and
\* current_streak <= total_correct <= total_completed.
C23_Statistics == [][C23_StatsStep]_vars /\ []C23_StatsOrdered

\* a slow correct answer, a fast incorrect one, then a faster correct one of
\* another type
C23_Witness ==
    /\ AchStats.total_completed = 3
    /\ AchStats.total_correct = 2
    /\ AchStats.current_streak = 1
    /\ AchStats.fastest_time = Some(3)
    /\ AchStats.type_count["audio"] = 1
    /\ AchStats.type_count["habitat"] = 2

\* the user has answered incorrectly at least once
HasIncorrect(stats) == stats.total_correct < stats.total_completed

C24_PerfectionistStep ==
    op'.name = "notify_completed" =>
        /\ ("perfectionist" \in AchUnlockedAfter \ AchUnlocked)
               <=> /\ "perfectionist" \notin AchUnlocked
                   /\ AchStatsAfter.total_completed >= 10
                   /\ ~HasIncorrect(AchStatsAfter)
        /\ ("perfectionist" \notin AchUnlocked /\ HasIncorrect(AchStats))
               => "perfectionist" \notin AchUnlockedAfter

C24_PerfectionistState ==
    /\ "perfectionist" \in AchUnlocked => AchStats.total_completed >= 10
    /\ AchStats.total_completed < 10 => "perfectionist" \notin AchUnlocked
    /\ ("perfectionist" \notin AchUnlocked /\ AchStats.total_completed >= 10)
           => HasIncorrect(AchStats)

\* C24: 'perfectionist' is unlocked by a completion exactly when the user then
\* has at least 10 completions and all of them correct; it is never unlocked
\* before the 10th completion, and a user who answered incorrectly before it
\* was unlocked never unlocks it.
C24_Perfectionist == [][C24_PerfectionistStep]_vars /\ []C24_PerfectionistState

\* unlocked by ten correct answers, and kept through a later incorrect one
C24_Witness ==
    /\ "perfectionist" \in AchUnlocked
    /\ AchStats.total_completed = 11
    /\ AchStats.total_correct = 10
    /\ AchStats.current_streak = 0

\* fifty completions with one incorrect answer among the first ten
C24_WitnessLocked ==
    /\ "perfectionist" \notin AchUnlocked
    /\ AchStats.total_completed = 50
    /\ AchStats.total_correct = 49

C25_FastCorrectUnlocks ==
    (op'.name = "notify_completed" /\ op'.args.is_correct /\ op'.args.time_taken < 5)
        => "speed_master" \in AchUnlockedAfter

C25_NotByIncorrect ==
    (op'.name = "notify_completed" /\ ~op'.args.is_correct)
        => ("speed_master" \in AchUnlockedAfter <=> "speed_master" \in AchUnlocked)

\* a user with speed_master has a correct answer that took less than 5 seconds
C25_NotBySlow ==
    "speed_master" \in AchUnlocked
        => AchStats.fastest_time # None /\ AchStats.fastest_time[1] < 5

\* the part of C25 that holds: speed_master is never unlocked by an incorrect
\* completion nor for a user whose correct answers all took 5 seconds or more
C25_NeverBySlowOrIncorrect == [][C25_NotByIncorrect]_vars /\ []C25_NotBySlow

\* C25: 'speed_master' is unlocked after any completion answered correctly with
\* time_taken under 5 seconds, a time_taken of 0 passed for a request without
\* one included; it is never unlocked by an incorrect completion nor for a user
\* whose correct answers all took 5 seconds or more.
C25_SpeedMaster ==
    [][C25_FastCorrectUnlocks]_vars /\ [][C25_NotByIncorrect]_vars /\ []C25_NotBySlow

(***************************************************************************)
(* Claims about the level progression and the sink.                        *)
(***************************************************************************)
\* the progression record of the one user, before and after a step
Prog == IF "u1" \in DOMAIN user_progression
        THEN user_progression["u1"] ELSE NewProgressionRecord

ProgAfter == user_progression'["u1"]

\* the multipliers 1.0 / 1.1 / 1.2 / 1.5 of the claim, as tenths
ClaimedMultiplier(type) ==
    CASE type = "audio" -> 10
      [] type = "visual" -> 11
      [] type = "habitat" -> 12
      [] type = "classification" -> 15
      [] OTHER -> 10

ClaimedSpeedBonus(time_taken) ==
    CASE time_taken < 5 -> 10
      [] time_taken >= 5 /\ time_taken < 10 -> 5
      [] time_taken >= 10 /\ time_taken < 20 -> 2
      [] OTHER -> 0

\* 0 for the integer difficulty of a factory-created challenge
ClaimedDifficultyBonus(difficulty) ==
    CASE difficulty = "medium" -> 5
      [] difficulty = "hard" -> 10
      [] OTHER -> 0

\* floor((10 + difficultyBonus) * typeMultiplier + speedBonus)
ClaimedXp(ch, time_taken) ==
    ((10 + ClaimedDifficultyBonus(ch.difficulty)) * ClaimedMultiplier(ch.type)
        + 10 * ClaimedSpeedBonus(time_taken)) \div 10

C26_XpStep ==
    op'.name = "notify_completed" =>
        LET ev == op'.args
            ch == challenge'
            xp == ProgAfter.current_xp - Prog.current_xp
        IN  /\ ProgAfter.challenges_completed = Prog.challenges_completed + 1
            /\ ProgAfter.total_xp_earned - Prog.total_xp_earned = xp
            /\ xp = IF ev.is_correct THEN ClaimedXp(ch, ev.time_taken) ELSE 0
            /\ ~ev.is_correct => ProgAfter.level = Prog.level
            /\ ch.difficulty = "1" => xp <= 25
            /\ (ev.is_correct /\ ch.difficulty = "1" /\ ch.type = "classification"
                    /\ ev.time_taken = 3) => xp = 25

\* C26: a completion earns 0 XP when incorrect, leaving current XP, lifetime XP
\* and level as they were while challenges_completed still goes up by one, and
\* otherwise floor((10 + difficultyBonus) * typeMultiplier + speedBonus); with
\* the integer difficulty of a factory-created challenge the difficulty bonus is
\* 0, a correct classification answer in 3 s earns exactly 25 and no completion
\* earns more than 25.
C26_XpFormula == [][C26_XpStep]_vars

\* after a correct classification answer in 3 s and an incorrect answer
C26_Witness ==
    /\ Prog.current_xp = 25
    /\ Prog.total_xp_earned = 25
    /\ Prog.challenges_completed = 2
    /\ op.name = "notify_completed" /\ ~op.args.is_correct

\* a correct visual answer of 'medium' difficulty in 5 s: floor(16.5) + 5
C26_WitnessFloor ==
    /\ Prog.current_xp = 21
    /\ Prog.challenges_completed = 1
    /\ challenge.type = "visual" /\ challenge.difficulty = "medium"
    /\ op.name = "notify_completed" /\ op.args.time_taken = 5

\* the thresholds of the levels 1 .. 8 as the claim lists them
ClaimedThresholds == <<0, 100, 300, 600, 1000, 1500, 2200, 3000>>

\* the highest level whose threshold is at most xp
ClaimedLevel(xp) ==
    CHOOSE l \in 1..Len(ClaimedThresholds) :
        /\ ClaimedThresholds[l] <= xp
        /\ \A m \in 1..Len(ClaimedThresholds) : ClaimedThresholds[m] <= xp => m <= l

\* C27: after every completion and every bonus award the level of a user is in
\* 1..8 and is the highest level whose threshold (0, 100, 300, 600, 1000, 1500,
\* 2200, 3000) is at most the user's current XP, a threshold reached exactly
\* counting as reached.
C27_LevelMatchesXp ==
    \A u \in DOMAIN user_progression :
        /\ user_progression[u].level \in 1..8
        /\ user_progression[u].level = ClaimedLevel(user_progression[u].current_xp)

\* 99 XP and a bonus of 1: exactly 100 XP, level 2
C27_Witness ==
    /\ op.name = "award_bonus_xp" /\ op.args.amount = 1
    /\ Prog.current_xp = 100
    /\ Prog.level = 2

\* the last level, reached through levels 4 and 5 and kept by a completion
C27_WitnessTop ==
    /\ op.name = "notify_completed"
    /\ Prog.level = 8
    /\ {Prog.level_up_history[i].new_level : i \in 1..Len(Prog.level_up_history)}
           = {4, 5, 8}

RECURSIVE Flatten(_)
\* the events of a sequence of batches, oldest first
Flatten(bs) == IF bs = <<>> THEN <<>> ELSE Head(bs) \o Flatten(Tail(bs))

\* every event the sink has been given: those sent and those pending
SinkEvents == Flatten(batches) \o event_queue

SinkEventsAfter == Flatten(batches') \o event_queue'

C28_LevelUpStep ==
    op'.name \in {"notify_completed", "award_bonus_xp"} =>
        LET a == Prog.level
            b == ProgAfter.level
            h == Prog.level_up_history
            hAfter == ProgAfter.level_up_history
        IN  IF b > a
            THEN /\ Len(hAfter) = Len(h) + 1
                 /\ SubSeq(hAfter, 1, Len(h)) = h
                 /\ hAfter[Len(hAfter)].old_level = a
                 /\ hAfter[Len(hAfter)].new_level = b
                 /\ Len(SinkEventsAfter) = Len(SinkEvents) + 1
                 /\ SubSeq(SinkEventsAfter, 1, Len(SinkEvents)) = SinkEvents
                 /\ LET e == SinkEventsAfter[Len(SinkEventsAfter)]
                    IN  /\ e.event_type = "level_up"
                        /\ e.student_id = op'.args.user_id
                        /\ e.new_level = b
            ELSE /\ hAfter = h
                 /\ SinkEventsAfter = SinkEvents

C28_HistoryChain ==
    LET h == Prog.level_up_history
    IN  /\ h = <<>> => Prog.level = 1
        /\ h # <<>> => /\ h[1].old_level = 1
                       /\ h[Len(h)].new_level = Prog.level
        /\ \A i \in 1..(Len(h) - 1) : h[i + 1].old_level = h[i].new_level
        /\ \A i \in 1..Len(h) : h[i].old_level < h[i].new_level

\* C28: an operation that raises the level from a to b appends exactly one
\* level-up record with old level a and new level b, however many levels are
\* crossed, and gives the sink exactly one level_up event for level b; an
\* operation that does not raise the level appends nothing and notifies
\* nothing.  So the history is a chain from level 1 to the current level.
C28_OneRecordPerLevelUp == [][C28_LevelUpStep]_vars /\ []C28_HistoryChain

\* a bonus that crossed three levels at once, then one that crossed four
C28_Witness ==
    /\ Len(Prog.level_up_history) = 2
    /\ Prog.level_up_history[1].old_level = 1
    /\ Prog.level_up_history[1].new_level = 4
    /\ Prog.level_up_history[2].new_level = 8
    /\ Len(SinkEvents) = 2
    /\ Prog.level = 8

\* the operations that give the sink one event
EnqueueNames ==
    {"notify_started", "notify_completed", "notify_skipped", "notify_level_up",
     "notify_achievement"}

C29_PendingBelowTen ==
    get_pending_events([queue |-> event_queue, sent |-> batches]) \in 0..9

C29_EnqueueStep ==
    op'.name \in EnqueueNames =>
        IF Len(event_queue) = 9
        THEN /\ event_queue' = <<>>
             /\ Len(batches') = Len(batches) + 1
             /\ SubSeq(batches', 1, Len(batches)) = batches
             /\ Len(batches'[Len(batches')]) = 10
             /\ SubSeq(batches'[Len(batches')], 1, 9) = event_queue
        ELSE /\ batches' = batches
             /\ Len(event_queue') = Len(event_queue) + 1
             /\ SubSeq(event_queue', 1, Len(event_queue)) = event_queue

C29_ForceFlushStep ==
    op'.name = "force_flush" =>
        /\ event_queue' = <<>>
        /\ batches' = IF event_queue = <<>> THEN batches
                      ELSE Append(batches, event_queue)

\* C29: the sink batches its events and flushes after 10: between operations it
\* holds 0 to 9 pending events; the batch is sent exactly when the 10th event is
\* queued, holds all 10, and leaves the queue empty; force_flush sends whatever
\* is pending and leaves the queue empty, doing nothing on an empty queue.
C29_BatchesOfTen ==
    []C29_PendingBelowTen /\ [][C29_EnqueueStep]_vars /\ [][C29_ForceFlushStep]_vars

\* a forced batch of one event, then a batch sent by the tenth event queued
\* after it
C29_Witness ==
    /\ op.name = "notify_started"
    /\ Len(batches) = 2
    /\ Len(batches[1]) = 1
    /\ batches[1][1].event_type = "achievement_unlocked"
    /\ Len(batches[2]) = 10
    /\ batches[2][1].event_type = "level_up"
    /\ batches[2][10].event_type = "challenge_started"
    /\ event_queue = <<>>

\* force_flush called on an empty queue
C29_WitnessEmptyFlush ==
    /\ op.name = "force_flush"
    /\ batches = <<>>
    /\ event_queue = <<>>

(***************************************************************************)
(* Claims about the records the observers keep.                            *)
(***************************************************************************)
\* a record as an observer creates it: zero counters, level 1, nothing unlocked
IsNewAnalyticsRecord(r) ==
    /\ r.total_challenges = 0 /\ r.correct_answers = 0 /\ r.incorrect_answers = 0
    /\ r.accuracy_rate = 0
    /\ \A t \in DOMAIN r.by_type : r.by_type[t].total = 0 /\ r.by_type[t].correct = 0
    /\ r.animals_discovered = <<>>
    /\ r.current_level = 1

IsNewAchievementRecord(r) ==
    /\ r.unlocked = {} /\ r.unlock_history = <<>>
    /\ r.stats.total_completed = 0 /\ r.stats.total_correct = 0
    /\ r.stats.current_streak = 0
    /\ r.stats.fastest_time = None
    /\ \A t \in DOMAIN r.stats.type_count : r.stats.type_count[t] = 0
    /\ r.stats.animals_discovered = {}

IsNewProgressionRecord(r) ==
    /\ r.level = 1 /\ r.current_xp = 0 /\ r.total_xp_earned = 0
    /\ r.challenges_completed = 0 /\ r.level_up_history = <<>>

\* the store after the step has a record for u, the old one if there was one and
\* otherwise a new one, and the records of the other users as they were
LazilyCreated(store, storeAfter, u, IsNew(_)) ==
    /\ DOMAIN storeAfter = DOMAIN store \cup {u}
    /\ \A v \in DOMAIN store : storeAfter[v] = store[v]
    /\ u \notin DOMAIN store => IsNew(storeAfter[u])

\* the step gives the sink exactly one event, of the given type
OneEventMore(type) ==
    /\ Len(SinkEventsAfter) = Len(SinkEvents) + 1
    /\ SubSeq(SinkEventsAfter, 1, Len(SinkEvents)) = SinkEvents
    /\ SinkEventsAfter[Len(SinkEventsAfter)].event_type = type

C30_StartedStep ==
    op'.name = "notify_started" =>
        LET u == op'.args.user_id
        IN  /\ LazilyCreated(user_data, user_data', u, IsNewAnalyticsRecord)
            /\ LazilyCreated(user_achievements, user_achievements', u,
                             IsNewAchievementRecord)
            /\ LazilyCreated(user_progression, user_progression', u,
                             IsNewProgressionRecord)
            /\ OneEventMore("challenge_started")

C30_SkippedStep ==
    op'.name = "notify_skipped" =>
        /\ UNCHANGED <<user_data, user_achievements, user_progression>>
        /\ OneEventMore("challenge_skipped")

C30_CompletedStep ==
    op'.name = "notify_completed" =>
        LET u == op'.args.user_id
        IN  /\ DOMAIN user_data' = DOMAIN user_data \cup {u}
            /\ DOMAIN user_achievements' = DOMAIN user_achievements \cup {u}
            /\ DOMAIN user_progression' = DOMAIN user_progression \cup {u}
            /\ u \notin DOMAIN user_data => user_data'[u].total_challenges = 1
            /\ u \notin DOMAIN user_achievements
                   => user_achievements'[u].stats.total_completed = 1
            /\ u \notin DOMAIN user_progression
                   => /\ user_progression'[u].challenges_completed = 1
                      /\ user_progression'[u].level = 1

\* C30: each observer creates the record of a user at the first
\* on_challenge_started or on_challenge_completed it receives for the user, with
\* zero counters and level 1; notify_started and notify_skipped for a user who
\* has records leave the analytics counters and level, the achievement
\* statistics, streak and unlocked set and the progression XP, level and history
\* as they were, and only give the sink one challenge_started or
\* challenge_skipped event.
C30_LazyRecordsAndFrame ==
    [][C30_StartedStep]_vars /\ [][C30_SkippedStep]_vars /\ [][C30_CompletedStep]_vars

\* a user with a completion behind them starts another challenge: the records
\* still hold the completion
C30_Witness ==
    /\ op.name = "notify_started" /\ op.args.user_id = "u1"
    /\ "u1" \in DOMAIN user_data
    /\ user_data["u1"].total_challenges = 1
    /\ user_achievements["u1"].stats.total_completed = 1
    /\ "first_steps" \in user_achievements["u1"].unlocked
    /\ user_progression["u1"].current_xp > 0
    /\ Len(SinkEvents) = 2

\* a user with a completion behind them skips a challenge
C30_WitnessSkipped ==
    /\ op.name = "notify_skipped" /\ op.args.user_id = "u1"
    /\ "u1" \in DOMAIN user_data
    /\ user_data["u1"].total_challenges = 1
    /\ user_progression["u1"].current_xp > 0
    /\ SinkEvents[Len(SinkEvents)].event_type = "challenge_skipped"

(***************************************************************************)
(* Claims about the decorators as objects.                                 *)
(***************************************************************************)
RECURSIVE ChainOf(_, _)
\* the objects of the chain that starts at object i, at most n wrappers deep
ChainOf(i, n) ==
    IF n = 0 THEN {i}
    ELSE LET c == ChainOf(i, n - 1)
         IN  c \cup {objects[j]._challenge[1] : j \in {k \in c : objects[k].decorator}}

\* the concrete challenge at the end of the chain that starts at object i
Innermost(i) == CHOOSE j \in ChainOf(i, Len(objects)) : ~objects[j].decorator

C31_ChainState ==
    \A i \in 1..Len(objects) :
        objects[i].decorator =>
            LET b == get_base_challenge(objects, i)
            IN  /\ get_wrapped_challenge(objects, i) \in 1..(i - 1)
                /\ b = Innermost(i)
                /\ ~objects[b].decorator
                /\ get_challenge_type(objects, i) = objects[b].type
                /\ objects[i].animal_id = objects[b].animal_id
                /\ objects[i].difficulty = objects[b].difficulty
                /\ objects[i].correct_answer = objects[b].correct_answer

C31_DecorateStep ==
    op'.name = "decorate" =>
        /\ Len(objects') = Len(objects) + 1
        /\ get_wrapped_challenge(objects', Len(objects')) = op'.args.object
        /\ SubSeq(objects', 1, Len(objects)) = objects

\* C31: decorators stack to any depth: get_wrapped_challenge returns the object
\* the decorator was built around, get_base_challenge the concrete challenge at
\* the end of the chain, and type, animal_id, difficulty and correct_answer seen
\* through a decorator are those of that concrete challenge.
C31_Stackable == []C31_ChainState /\ [][C31_DecorateStep]_vars

\* three decorators around a classification challenge created after an audio one
C31_Witness ==
    /\ Len(objects) = 5
    /\ ~objects[1].decorator /\ objects[1].type = "audio"
    /\ ~objects[2].decorator /\ objects[2].type = "classification"
    /\ \A i \in 3..5 : objects[i].decorator /\ objects[i]._challenge = Some(i - 1)
    /\ get_base_challenge(objects, 5) = 2
    /\ get_challenge_type(objects, 5) = "classification"
    /\ objects[5].animal_id = 3

\* the operations of the observer pattern on an object
SubjectNames ==
    {"attach", "detach", "notify_started", "notify_completed", "notify_skipped"}

C35_CallsSucceed ==
    (op'.name \in SubjectNames /\ objects[op'.args.object].decorator) => ~raised'

C35_EventsDelivered ==
    (op'.name \in NotifyNames /\ objects[op'.args.object].decorator
        /\ objects[op'.args.object]._observers # None)
        => calls' = objects[op'.args.object]._observers[1]

\* C35: a timed decorator is itself an observable challenge: attach, detach,
\* notify_started, notify_completed and notify_skipped called on a decorator end
\* without an error, and the observers attached to the decorator receive the
\* events fired on it.
C35_DecoratorObservable == [][C35_CallsSucceed]_vars /\ [][C35_EventsDelivered]_vars

\* the same calls on the concrete challenge succeed and reach its observers
C35_ConcreteObservable ==
    (op'.name \in SubjectNames /\ ~objects[op'.args.object].decorator)
        => /\ ~raised'
           /\ op'.name \in NotifyNames => calls' = objects[op'.args.object]._observers[1]

C35_ConcreteSubjects == [][C35_ConcreteObservable]_vars

(***************************************************************************)
(* Claims about concurrent requests.                                       *)
(***************************************************************************)
BothDone == \A p \in DOMAIN requests : requests[p].pc = "done"

\* the completions the user had before the two requests
CountBefore == requests[1].before

\* C32: two completion events for the same user handled by concurrently running
\* requests lose no update: once both requests are done, the completion count of
\* the analytics, of the achievement observer and of the level observer is two
\* more than before, and the analytics total is correct plus incorrect.
C32_NoLostUpdate ==
    (requests # <<>> /\ BothDone) =>
        /\ user_data[RequestUser].total_challenges = CountBefore + 2
        /\ AchStats.total_completed = CountBefore + 2
        /\ Prog.challenges_completed = CountBefore + 2
        /\ user_data[RequestUser].total_challenges =
               user_data[RequestUser].correct_answers
               + user_data[RequestUser].incorrect_answers

\* two requests that do not overlap lose nothing
C32_SerialKeeps ==
    (requests # <<>> /\ BothDone /\ \A p \in DOMAIN requests : ~requests[p].overlapped)
        => /\ user_data[RequestUser].total_challenges = CountBefore + 2
           /\ AchStats.total_completed = CountBefore + 2
           /\ Prog.challenges_completed = CountBefore + 2
           /\ user_data[RequestUser].total_challenges =
                  user_data[RequestUser].correct_answers
                  + user_data[RequestUser].incorrect_answers

C32_SerialWitness ==
    requests # <<>> /\ BothDone /\ \A p \in DOMAIN requests : ~requests[p].overlapped

(***************************************************************************)
(* Claims about the achievements of the animals' periods.                  *)
(***************************************************************************)
\* the challenges the user completed, all for animals of the period asked for
CompletedFor(user_id, period) ==
    IF user_id \in DOMAIN user_achievements
       /\ \A ua \in PeriodUsers : ua[1] = user_id => AnimalPeriod(ua[2]) = period
    THEN user_achievements[user_id].stats.total_completed
    ELSE 0

UnlockedOf(user_id) ==
    IF user_id \in DOMAIN user_achievements
    THEN user_achievements[user_id].unlocked ELSE {}

\* C33: a user who has completed 5 challenges for nocturnal animals has
\* night_owl, and a user who has completed 5 challenges for diurnal animals has
\* day_champion.
C33_PeriodUnlocks ==
    \A user_id \in {"u1", "u2"} :
        /\ CompletedFor(user_id, "noturno") >= 5 => "night_owl" \in UnlockedOf(user_id)
        /\ CompletedFor(user_id, "diurno") >= 5 => "day_champion" \in UnlockedOf(user_id)

\* the counters the two criteria read stay at 0
C33_CountersStay ==
    \A user_id \in DOMAIN user_achievements :
        /\ user_achievements[user_id].stats.night_challenges = 0
        /\ user_achievements[user_id].stats.day_challenges = 0

(***************************************************************************)
(* Claims about validate calls after the time limit.                       *)
(***************************************************************************)
\* the time since start_timer at this moment, in ticks, and the limit in ticks
SinceStart == now - start_time[1]

LimitTicks == LimitCs * TicksPerCs

\* C34: a validate_answer call made after more than time_limit_seconds have
\* passed since start_timer returns false, whether or not an earlier validate
\* call of the same timer run was made within the limit; and a call returns
\* true only for a correct answer.
C34_LateIsFalse ==
    [][(op'.name = "validate_answer" /\ start_time # None)
         => /\ SinceStart > LimitTicks => ret'.is_correct = FALSE
            /\ ret'.is_correct => validate_answer(challenge, op'.args)]_vars

\* the first validate call of a timer run is false when it is late by more than
\* the rounding of the elapsed time to two decimals hides
C34_FirstLateIsFalse ==
    [][(op'.name = "validate_answer" /\ start_time # None /\ ~answer_submitted
          /\ SinceStart > LimitTicks + 2)
         => ret'.is_correct = FALSE]_vars

\* a late call after an earlier call was made returns what the answer is worth
\* at the time of the earlier call
C34_LateAfterEarlier ==
    op.name = "validate_answer" /\ start_time # None /\ SinceStart > LimitTicks + 2
    /\ ret # None /\ ret.is_correct

(***************************************************************************)
(* Claims about the analytics level.                                       *)
(***************************************************************************)
AnalyticsLevel == IF "u1" \in DOMAIN user_data
                  THEN user_data["u1"].current_level ELSE 1

C36_InRange == \A u \in DOMAIN user_data : user_data[u].current_level \in 1..5

C36_NoDecrease ==
    \A u \in DOMAIN user_data :
        u \in DOMAIN user_data' /\ user_data'[u].current_level >= user_data[u].current_level

\* C36: a user's analytics current_level is always in 1..5 and no completion
\* lowers it, also when the accuracy has dropped below what earned the level.
C36_LevelMonotone == []C36_InRange /\ [][C36_NoDecrease]_vars

\* the user holds level 4 with an accuracy below the 80% that earned it
C36_Witness ==
    /\ "u1" \in DOMAIN user_data
    /\ user_data["u1"].current_level = 4
    /\ user_data["u1"].accuracy_rate < 8000
    /\ op.name = "notify_completed"

(***************************************************************************)
(* Claims about a completion the analytics fails to record.                *)
(***************************************************************************)
\* the step is a completion of user u1 whose recording raised
RecordingFailed == op'.name = "notify_completed" /\ op'.args.user_id = "u1" /\ raised'

AnalyticsRecord == IF "u1" \in DOMAIN user_data
                   THEN user_data["u1"] ELSE NewCognitiveRecord

\* C39: a completion whose recording fails in the analytics leaves the user's
\* analytics record as it was before the call, so that afterwards the total is
\* still correct plus incorrect and the per-type totals still add up to it.
C39_FailureLeavesRecord ==
    [][RecordingFailed =>
         /\ user_data'["u1"] = AnalyticsRecord
         /\ user_data'["u1"].total_challenges =
                user_data'["u1"].correct_answers + user_data'["u1"].incorrect_answers
         /\ SumTotalBuiltin(user_data'["u1"].by_type) = user_data'["u1"].total_challenges]_vars

\* what the failed call does keep: total = correct + incorrect, and the per-type
\* buckets and the level as they were
C39_FailureKeeps ==
    [][RecordingFailed =>
         /\ user_data'["u1"].total_challenges =
                user_data'["u1"].correct_answers + user_data'["u1"].incorrect_answers
         /\ user_data'["u1"].total_challenges = AnalyticsRecord.total_challenges + 1
         /\ user_data'["u1"].by_type = AnalyticsRecord.by_type
         /\ user_data'["u1"].current_level = AnalyticsRecord.current_level]_vars

(***************************************************************************)
(* Claims about the isolation of the users' records.                       *)
(***************************************************************************)
\* user_id has the same record in the store before and after the step, or none
\* before and none after
SameRecord(before, after, user_id) ==
    /\ user_id \in DOMAIN after <=> user_id \in DOMAIN before
    /\ user_id \in DOMAIN before => after[user_id] = before[user_id]

\* C38: a started, completed or skipped event for one user leaves every other
\* user's analytics, achievement and progression record unchanged and creates
\* no record for another user.
C38_UsersIsolated ==
    [][op'.name \in NotifyNames =>
         \A other \in AllUsers \ {op'.args.user_id} :
             /\ SameRecord(user_data, user_data', other)
             /\ SameRecord(user_achievements, user_achievements', other)
             /\ SameRecord(user_progression, user_progression', other)]_vars

\* u1 has completed a challenge after u2 had done so, and both have records
C38_Witness ==
    /\ op.name = "notify_completed" /\ op.args.user_id = "u1"
    /\ {"u1", "u2"} \subseteq DOMAIN user_data
    /\ {"u1", "u2"} \subseteq DOMAIN user_achievements
    /\ {"u1", "u2"} \subseteq DOMAIN user_progression
    /\ user_data["u1"].total_challenges = 1 /\ user_data["u2"].total_challenges = 1
    /\ AchStats.total_completed = 1
    /\ user_achievements["u2"].stats.total_completed = 1
    /\ Prog.challenges_completed = 1
    /\ user_progression["u2"].challenges_completed = 1

(***************************************************************************)
(* Claims about the order of the events in the sink.                       *)
(***************************************************************************)
\* the events the step has given the sink, when it has kept the earlier ones
AddedEvents == SubSeq(SinkEventsAfter, Len(SinkEvents) + 1, Len(SinkEventsAfter))

\* the sent batches followed by the pending queue go on from what they were
C37_HistoryKept ==
    /\ Len(SinkEventsAfter) >= Len(SinkEvents)
    /\ SubSeq(SinkEventsAfter, 1, Len(SinkEvents)) = SinkEvents
    /\ Len(batches') >= Len(batches)
    /\ SubSeq(batches', 1, Len(batches)) = batches

\* the events each operation enqueues, in the order it enqueues them
C37_EnqueuedInOrder ==
    CASE op'.name = "notify_started" ->
            AddedEvents = <<StartedEvent(op'.args.user_id, challenge')>>
      [] op'.name = "notify_completed" ->
            LET completed == CompletedEvent(op'.args.user_id, challenge',
                                 op'.args.answer, op'.args.time_taken,
                                 op'.args.is_correct)
            IN  IF ProgAfter.level > Prog.level
                THEN /\ Len(AddedEvents) = 2
                     /\ AddedEvents[1] = completed
                     /\ AddedEvents[2].event_type = "level_up"
                     /\ AddedEvents[2].new_level = ProgAfter.level
                ELSE AddedEvents = <<completed>>
      [] op'.name = "force_flush" ->
            AddedEvents = <<>> /\ event_queue' = <<>>
      [] OTHER -> AddedEvents = <<>>

\* every sent batch holds events, at most max_queue_size of them
C37_Batches ==
    \A i \in 1..Len(batches) : Len(batches[i]) \in 1..max_queue_size

\* C37: the sink never loses, duplicates or reorders a queued event: the sent
\* batches followed by the pending queue are the events in the order they were
\* enqueued, and the level_up event a completion causes follows that
\* completion's challenge_completed event.
C37_EnqueueOrder ==
    []C37_Batches /\ [][C37_HistoryKept /\ C37_EnqueuedInOrder]_vars

\* a force-flushed batch and a batch sent because the queue was full are out, and
\* a level_up event stands right after a challenge_completed event in the
\* sink's history
C37_Witness ==
    /\ op.name = "notify_completed"
    /\ Len(batches) = 2
    /\ Len(batches[1]) < max_queue_size
    /\ Len(batches[2]) = max_queue_size
    /\ event_queue = <<>>
    /\ Prog.level = 2
    /\ \E i \in 1..(Len(SinkEvents) - 1) :
          /\ SinkEvents[i].event_type = "challenge_completed"
          /\ SinkEvents[i + 1].event_type = "level_up"

====
